---- MODULE Spec2Model ----
(***************************************************************************)
(* Offers365: the product-resolution and offer-generation pipeline of      *)
(* POST /api/product, in its two route-handler variants:                   *)
(*   "rich"   = src/server/routes.ts                                       *)
(*   "simple" = src/unnamed/part_006                                       *)
(* Texts that the code inspects (URLs, product ids) are sequences of       *)
(* one-character strings; texts that the code only compares or passes on   *)
(* are TLA+ strings.                                                       *)
(***************************************************************************)
EXTENDS Integers, Sequences, FiniteSets, TLC

VARIABLES
    variant,      \* which route-handler file is running: "rich" or "simple"
    req,          \* req.body of the request: a function from the fields present to their values
    pc,           \* position of the async handler: the await it is suspended at
    finalUrl,     \* const finalUrl = await resolveRedirects(url)
    productId,    \* const productId (<<>> stands for null)
    apiOk,        \* whether getProductDetailsFromApi returned (did not throw)
    apiData,      \* what getProductDetailsFromApi returned
    scrapedData,  \* what getProductDetails returned
    productData,  \* let productData
    offersPrimaryV,   \* const offersPrimary of generateAllOffers, urls as strings
    offersSecondaryV, \* const offersSecondary of generateAllOffers, urls as strings
    i,            \* loop index of generateAllOffers, 1-based
    results,      \* const results: OfferItem[]
    net,          \* upstream calls started so far, per kind
    linkLog,      \* the url argument of every generateAffiliateLink call, in order
    res,          \* what was sent on res: status 0 while nothing was sent
    linkService,  \* how the link endpoint behaves during this request: "free", "up", "down", "primaryDown"
    redirectOk,   \* history: whether the fetch of resolveRedirects returned (did not throw)
    scrapeOk,     \* history: whether the page fetch of getProductDetails gave a page
    attemptReturns, \* history: what generateAffiliateLink returned for the offer last attempted, in call order
    events,       \* history: the upstream calls of the request, each as it starts and as it ends
    text,         \* argument of a stand-alone extractProductId call
    extracted,    \* its result
    params,       \* argument of a stand-alone generateApiSignature call: insertion-ordered <<key, value>> pairs
    secret,       \* its secret
    sig,          \* its result
    phase,        \* "input" before a stand-alone call, "called" after it
    flight,       \* a second request handled side by side: which of the two is running, and the locals of the suspended one
    overlap,      \* history: whether both of them were awaiting an upstream call at the same time
    stored,       \* AsyncStorage item RECENT_PRODUCTS, as the list it encodes
    lastSaved,    \* the last saveProduct call: its argument and what the storage did
    call,         \* one upstream call on its own: the requests it sent and what it returned
    twin,         \* one request handled by both variants against the same upstream behaviour
    formatted,    \* a stand-alone formatProductMessage call: its arguments and its result
    savers,       \* the saveProduct calls in progress on the client, each with its locals
    users,        \* the rows of the users table
    auth          \* the register and login requests in progress or answered, each with its locals

vars == <<variant, req, pc, finalUrl, productId, apiOk, apiData, scrapedData,
          productData, offersPrimaryV, offersSecondaryV, i, results, net, linkLog, res,
          linkService, redirectOk, scrapeOk, attemptReturns, events,
          text, extracted, params, secret, sig, phase,
          flight, overlap, stored, lastSaved, call, twin, formatted, savers, users, auth>>

pipelineVars == <<req, pc, finalUrl, productId, apiOk, apiData, scrapedData,
                  productData, offersPrimaryV, offersSecondaryV, i, results, net, linkLog,
                  res, linkService, redirectOk, scrapeOk, attemptReturns, events>>

extractVars == <<text, extracted>>

sigVars == <<params, secret, sig>>

moreVars == <<twin, formatted, savers, users, auth>>

auxVars == <<flight, overlap, stored, lastSaved, call, moreVars>>

(***************************************************************************)
(* Bounds of the model.                                                    *)
(***************************************************************************)
\* parts a text of the stand-alone extractProductId calls is put together from
MaxParts == 3

\* entries of a parameter map of the stand-alone generateApiSignature calls
MaxParams == 2

\* parts a message template is put together from
MaxTemplateParts == 3

\* saveProduct calls in a run of the client storage
MaxSaves == 23

\* of these, the calls that save a product already in the list
MaxResaves == 1

\* of these, the calls during which AsyncStorage rejects a read or a write
MaxFaults == 1

(***************************************************************************)
(* Program constants.                                                      *)
(***************************************************************************)
\* /\b\d{10,20}\b/
MinIdDigits == 10

MaxIdDigits == 20

\* if (products.length > 20) of saveProduct
HistoryLimit == 20

\* title.substring(0, 250) of routes.ts
TitleLimitRich == 250

\* title.slice(0, 255) of part_006
TitleLimitSimple == 255

(***************************************************************************)
(* Characters and character classes of the regular expressions.            *)
(***************************************************************************)
Digit == {"0","1","2","3","4","5","6","7","8","9"}

Lower == {"a","b","c","d","e","f","g","h","i","j","k","l","m",
          "n","o","p","q","r","s","t","u","v","w","x","y","z"}

Upper == {"A","B","C","D","E","F","G","H","I","J","K","L","M",
          "N","O","P","Q","R","S","T","U","V","W","X","Y","Z"}

\* \w, as \b sees it
WordChar == Lower \cup Upper \cup Digit \cup {"_"}

\* [a-z0-9] of the last URL pattern
LowerDigit == Lower \cup Digit

\* (?:[a-zA-Z]|[0-9]|[$-_@.&+]|[!*\(\),]|(?:%[0-9a-fA-F][0-9a-fA-F])): the range $-_ is
\* U+0024..U+005F, which holds % and the hexadecimal digits already
UrlChar == Lower \cup Upper \cup Digit
           \cup {"$","%","&","'","(",")","*","+",",","-",".","/",":",";","<","=",">","?","@",
                 "[","\\","]","^","_"}
           \cup {"!"}

LitHttp == <<"h","t","t","p">>
LitColonSlashes == <<":","/","/">>
LitAliexpress == <<"a","l","i","e","x","p","r","e","s","s",".","c","o","m">>
LitAlix == <<"a","l","i","x",".","l","i","v","e">>
LitSClick == <<"s",".","c","l","i","c","k",".","a","l","i","e","x","p","r","e","s","s",".","c","o","m">>
LitProductId == <<"p","r","o","d","u","c","t","I","d">>
LitItem == <<"/","i","t","e","m","/">>
LitDotHtm == <<".","h","t","m">>
LitProduct == <<"/","p","r","o","d","u","c","t","/">>
LitI == <<"/","i","/">>
LitP == <<"/","p","/">>
LitIndexHtml == <<"/","i","n","d","e","x",".","h","t","m","l">>
LitSsr == <<"/","s","s","r","/">>
LitDotHtmlQ == <<".","h","t","m","l","?">>

(***************************************************************************)
(* String primitives.                                                      *)
(***************************************************************************)
\* the character at position p, "" outside the text
At(s, p) == IF p \in 1..Len(s) THEN s[p] ELSE ""

\* the literal lit occurs in s at position p
LitAt(s, p, lit) ==
    /\ p >= 1
    /\ p + Len(lit) - 1 <= Len(s)
    /\ \A k \in 1..Len(lit) : s[p + k - 1] = lit[k]

\* String.prototype.includes
Includes(s, lit) == \E p \in 1..Len(s) : LitAt(s, p, lit)

\* length of the longest run of characters of class C that starts at p (a greedy C*)
RunLen(s, p, C) ==
    CHOOSE n \in 0..(Len(s) + 1) :
        /\ \A k \in 0..(n - 1) : At(s, p + k) \in C
        /\ At(s, p + n) \notin C

\* the capture of a greedy (\d+) that starts at p
DigitsFrom(s, p) == SubSeq(s, p, p + RunLen(s, p, Digit) - 1)

MinOf(S) == CHOOSE m \in S : \A n \in S : m <= n

\* the string of the characters of s (split in halves to keep the recursion shallow)
RECURSIVE Str(_)
Str(s) ==
    IF s = <<>> THEN ""
    ELSE IF Len(s) = 1 THEN s[1]
    ELSE Str(SubSeq(s, 1, Len(s) \div 2)) \o Str(SubSeq(s, (Len(s) \div 2) + 1, Len(s)))

\* a || b on strings
OrElse(a, b) == IF a # "" THEN a ELSE b

\* a || b on texts
OrElseSeq(a, b) == IF a # <<>> THEN a ELSE b

(***************************************************************************)
(* extractProductId: the regular expressions.  Each pattern operator gives *)
(* the position where the capture (\d+) of a match starting at p begins,   *)
(* 0 when the pattern does not match at p.  Every capture is followed by   *)
(* nothing a digit could match, so a greedy (\d+) is the whole digit run.  *)
(***************************************************************************)
\* productId(s)?=(\d+) at position p, where the plural and singular spellings are
\* allowed as the flags say
ParamAt(s, p, plural, singular) ==
    IF ~LitAt(s, p, LitProductId) THEN 0
    ELSE LET q == p + Len(LitProductId) IN
         IF plural /\ At(s, q) = "s" /\ At(s, q + 1) = "=" /\ At(s, q + 2) \in Digit
             THEN q + 2
         ELSE IF singular /\ At(s, q) = "=" /\ At(s, q + 1) \in Digit
             THEN q + 1
         ELSE 0

\* /[?&]productIds?=(\d+)/ and its two halves /[?&]productIds=(\d+)/, /[?&]productId=(\d+)/
QueryParamAt(s, p, plural, singular) ==
    IF At(s, p) \in {"?", "&"} THEN ParamAt(s, p + 1, plural, singular) ELSE 0

\* /\/item\/(\d+)\.(?:html|htm)/
ItemHtmlAt(s, p) ==
    IF ~LitAt(s, p, LitItem) THEN 0
    ELSE LET q == p + Len(LitItem)
             n == RunLen(s, q, Digit) IN
         IF n >= 1 /\ LitAt(s, q + n, LitDotHtm) THEN q ELSE 0

\* /\/item\/(\d+)(?:\?|$)/
ItemEndAt(s, p) ==
    IF ~LitAt(s, p, LitItem) THEN 0
    ELSE LET q == p + Len(LitItem)
             n == RunLen(s, q, Digit) IN
         IF n >= 1 /\ (At(s, q + n) = "?" \/ q + n = Len(s) + 1) THEN q ELSE 0

\* /\/product\/(\d+)/ and /\/i\/(\d+)/
PrefixDigitsAt(s, p, lit) ==
    IF LitAt(s, p, lit) /\ At(s, p + Len(lit)) \in Digit THEN p + Len(lit) ELSE 0

\* /\/p\/[^/]+\/index\.html[?&]productIds?=(\d+)/
PIndexAt(s, p, plural, singular) ==
    IF ~LitAt(s, p, LitP) THEN 0
    ELSE LET q == p + Len(LitP)
             n == CHOOSE m \in 0..(Len(s) + 1) :
                     /\ \A k \in 0..(m - 1) : At(s, q + k) \notin {"/", ""}
                     /\ At(s, q + m) \in {"/", ""} IN
         IF n >= 1 /\ LitAt(s, q + n, LitIndexHtml)
             THEN QueryParamAt(s, q + n + Len(LitIndexHtml), plural, singular)
             ELSE 0

\* /\/ssr\/.*?[?&]productIds?=(\d+)/: the lazy .*? stops at the first place the rest matches
SsrAt(s, p, plural, singular) ==
    IF ~LitAt(s, p, LitSsr) THEN 0
    ELSE LET J == {j \in (p + Len(LitSsr))..Len(s) : QueryParamAt(s, j, plural, singular) # 0} IN
         IF J = {} THEN 0 ELSE QueryParamAt(s, MinOf(J), plural, singular)

\* /\/[a-z0-9]+\.html\?.*?productId(?:s)?=(\d+)/
HtmlQueryAt(s, p) ==
    IF At(s, p) # "/" THEN 0
    ELSE LET n == RunLen(s, p + 1, LowerDigit)
             q == p + 1 + n IN
         IF n >= 1 /\ LitAt(s, q, LitDotHtmlQ)
             THEN LET J == {j \in (q + Len(LitDotHtmlQ))..Len(s) : ParamAt(s, j, TRUE, TRUE) # 0} IN
                  IF J = {} THEN 0 ELSE ParamAt(s, MinOf(J), TRUE, TRUE)
             ELSE 0

\* where the capture of pattern pat begins when the pattern is tried at position p
CaptureAt(s, p, pat) ==
    CASE pat = "queryBoth"     -> QueryParamAt(s, p, TRUE, TRUE)
      [] pat = "queryPlural"   -> QueryParamAt(s, p, TRUE, FALSE)
      [] pat = "querySingular" -> QueryParamAt(s, p, FALSE, TRUE)
      [] pat = "itemHtml"      -> ItemHtmlAt(s, p)
      [] pat = "itemEnd"       -> ItemEndAt(s, p)
      [] pat = "product"       -> PrefixDigitsAt(s, p, LitProduct)
      [] pat = "i"             -> PrefixDigitsAt(s, p, LitI)
      [] pat = "pIndexBoth"    -> PIndexAt(s, p, TRUE, TRUE)
      [] pat = "pIndexPlural"  -> PIndexAt(s, p, TRUE, FALSE)
      [] pat = "ssrBoth"       -> SsrAt(s, p, TRUE, TRUE)
      [] pat = "ssrPlural"     -> SsrAt(s, p, TRUE, FALSE)
      [] pat = "htmlQuery"     -> HtmlQueryAt(s, p)

\* whether s.match(pattern) is non-null
Matches(s, pat) == \E p \in 1..Len(s) : CaptureAt(s, p, pat) # 0

\* s.match(pattern)[1]: the capture of the leftmost match, <<>> when there is none
MatchCapture(s, pat) ==
    IF Matches(s, pat)
        THEN DigitsFrom(s, CaptureAt(s, MinOf({p \in 1..Len(s) : CaptureAt(s, p, pat) # 0}), pat))
        ELSE <<>>

\* const urlPatterns = [...] of routes.ts
UrlPatternsRich ==
    <<"queryBoth", "itemHtml", "itemEnd", "product", "i", "pIndexBoth", "ssrBoth", "htmlQuery">>

\* const patterns = [...] of part_006
PatternsSimple ==
    <<"queryPlural", "querySingular", "itemHtml", "itemEnd", "product", "i",
      "pIndexPlural", "ssrPlural", "htmlQuery">>

\* faulty variant of the pattern loop: no early return, so the last matching pattern wins
RECURSIVE FirstCapture_LastWins(_, _)
FirstCapture_LastWins(s, pats) ==
    IF pats = <<>> THEN <<>>
    ELSE LET later == FirstCapture_LastWins(s, Tail(pats)) IN
         IF later # <<>> THEN later ELSE MatchCapture(s, Head(pats))

\* for (const pattern of patterns) { const match = s.match(pattern); if (match) return match[1]; }
RECURSIVE FirstCapture(_, _)
FirstCapture(s, pats) ==
    IF pats = <<>> THEN <<>>
    ELSE IF Matches(s, Head(pats)) THEN MatchCapture(s, Head(pats))
    ELSE FirstCapture(s, Tail(pats))

\* a match of urlPattern can start at p: https?:\/\/ and at least one URL character
UrlStartsAt(s, p) ==
    /\ LitAt(s, p, LitHttp)
    /\ LET q == IF At(s, p + 4) = "s" THEN p + 5 ELSE p + 4 IN
       LitAt(s, q, LitColonSlashes) /\ At(s, q + 3) \in UrlChar

\* the position after the last character of the match of urlPattern that starts at p
UrlEnd(s, p) ==
    LET q == IF At(s, p + 4) = "s" THEN p + 5 ELSE p + 4 IN
    q + 3 + RunLen(s, q + 3, UrlChar)

\* text.match(urlPattern) with the g flag: the successive non-overlapping matches from position p on
RECURSIVE UrlsFrom(_, _)
UrlsFrom(s, p) ==
    LET S == {q \in p..Len(s) : UrlStartsAt(s, q)} IN
    IF S = {} THEN <<>>
    ELSE LET b == MinOf(S)
             e == UrlEnd(s, b) IN
         <<SubSeq(s, b, e - 1)>> \o UrlsFrom(s, e)

HasDomain(s) ==
    Includes(s, LitAliexpress) \/ Includes(s, LitAlix) \/ Includes(s, LitSClick)

\* urls?.find(url => url.includes(...)) || text
TargetUrl(s) ==
    LET urls == UrlsFrom(s, 1)
        K == {k \in 1..Len(urls) : HasDomain(urls[k])} IN
    IF K = {} THEN s ELSE urls[MinOf(K)]

\* text.match(/\b\d{10,20}\b/): the leftmost stand-alone run of 10 to 20 digits
NumericStartsAt(s, p) ==
    /\ At(s, p) \in Digit
    /\ At(s, p - 1) \notin WordChar
    /\ LET n == RunLen(s, p, Digit) IN
       n >= MinIdDigits /\ n <= MaxIdDigits /\ At(s, p + n) \notin WordChar

NumericMatch(s) ==
    LET S == {p \in 1..Len(s) : NumericStartsAt(s, p)} IN
    IF S = {} THEN <<>> ELSE DigitsFrom(s, MinOf(S))

\* faulty variant: the patterns alone, without the search for a long number
extractProductIdRich_PatternsOnly(s) == FirstCapture(TargetUrl(s), UrlPatternsRich)

\* extractProductId of routes.ts
extractProductIdRich(s) ==
    LET byPattern == FirstCapture(TargetUrl(s), UrlPatternsRich) IN
    IF byPattern # <<>> THEN byPattern ELSE NumericMatch(s)

\* extractProductId of part_006
extractProductIdSimple(s) == FirstCapture(s, PatternsSimple)

extractProductId(v, s) ==
    IF v = "rich" THEN extractProductIdRich(s) ELSE extractProductIdSimple(s)

(***************************************************************************)
(* generateApiSignature.  A parameter map is the sequence of its           *)
(* <<key, value>> pairs in insertion order (the order Object.keys gives);  *)
(* keys and values are texts.  The HMAC-SHA256 digest is kept symbolic: a  *)
(* record of the key and the message it was computed from.                 *)
(***************************************************************************)
\* the characters of keys, in ascending UTF-16 code unit order
CodeOrder ==
    <<"0","1","2","3","4","5","6","7","8","9",
      "A","B","C","D","E","F","G","H","I","J","K","L","M",
      "N","O","P","Q","R","S","T","U","V","W","X","Y","Z", "_",
      "a","b","c","d","e","f","g","h","i","j","k","l","m",
      "n","o","p","q","r","s","t","u","v","w","x","y","z">>

Code(c) == CHOOSE k \in 1..Len(CodeOrder) : CodeOrder[k] = c

\* a < b as Array.prototype.sort compares strings without a comparator
RECURSIVE StrLess(_, _)
StrLess(a, b) ==
    IF b = <<>> THEN FALSE
    ELSE IF a = <<>> THEN TRUE
    ELSE IF Head(a) = Head(b) THEN StrLess(Tail(a), Tail(b))
    ELSE Code(Head(a)) < Code(Head(b))

\* Object.keys(params)
ObjectKeys(ps) == [k \in 1..Len(ps) |-> ps[k][1]]

\* params[key]
ValueOf(ps, key) == ps[CHOOSE k \in 1..Len(ps) : ps[k][1] = key][2]

RemoveAt(q, k) == SubSeq(q, 1, k - 1) \o SubSeq(q, k + 1, Len(q))

\* faulty variant: the keys are left in insertion order
SortKeys_InsertionOrder(ks) == ks

\* keys.sort()
RECURSIVE SortKeys(_)
SortKeys(ks) ==
    IF ks = <<>> THEN <<>>
    ELSE LET m == CHOOSE k \in 1..Len(ks) :
                      \A j \in 1..Len(ks) : ~StrLess(ks[j], ks[k]) IN
         <<ks[m]>> \o SortKeys(RemoveAt(ks, m))

\* sortedKeys.map((key) => `${key}${params[key]}`).join("")
RECURSIVE JoinPairs(_, _)
JoinPairs(ks, ps) ==
    IF ks = <<>> THEN <<>>
    ELSE Head(ks) \o ValueOf(ps, Head(ks)) \o JoinPairs(Tail(ks), ps)

\* crypto.createHmac("sha256", secret).update(message).digest("hex").toUpperCase()
HmacSha256HexUpper(key, message) ==
    [alg |-> "HMAC-SHA256", key |-> key, message |-> message, encoding |-> "HEX-UPPER"]

generateApiSignature(ps, sec) ==
    HmacSha256HexUpper(sec, JoinPairs(SortKeys(ObjectKeys(ps)), ps))

(***************************************************************************)
(* Numbers and texts of the metadata stage.                                *)
(***************************************************************************)
LitNA == <<"N","/","A">>
LitStore == <<"/","s","t","o","r","e","/">>
LitAmp == <<"&","a","m","p",";">>
LitQuot == <<"&","q","u","o","t",";">>
LitLt == <<"&","l","t",";">>
LitGt == <<"&","g","t",";">>
LitSlashSlash == <<"/","/">>
LitHttps == <<"h","t","t","p","s",":">>
LitJpg == <<"j","p","g">>
LitPng == <<"p","n","g">>
LitWebp == <<"w","e","b","p">>

\* JavaScript null, where the code keeps a string or null
Null == "<null>"

\* o.f, with dflt standing for undefined
Field(o, f, dflt) == IF f \in DOMAIN o THEN o[f] ELSE dflt

\* s.replace(/[^0-9.]/g, "")
RECURSIVE KeepNumeric(_)
KeepNumeric(s) ==
    IF s = <<>> THEN <<>>
    ELSE IF Head(s) \in Digit \cup {"."} THEN <<Head(s)>> \o KeepNumeric(Tail(s))
    ELSE KeepNumeric(Tail(s))

RECURSIVE Pow10(_)
Pow10(n) == IF n = 0 THEN 1 ELSE 10 * Pow10(n - 1)

\* the number a run of decimal digits denotes
RECURSIVE DigitsValue(_)
DigitsValue(ds) ==
    IF ds = <<>> THEN 0
    ELSE 10 * DigitsValue(SubSeq(ds, 1, Len(ds) - 1)) + (Code(ds[Len(ds)]) - 1)

\* parseFloat on a text of digits and dots: the longest prefix digits [. digits] that holds a
\* digit, as the exact fraction num / den; nan when there is no such prefix
ParseFloat(s) ==
    LET n1 == RunLen(s, 1, Digit)
        n2 == IF At(s, n1 + 1) = "." THEN RunLen(s, n1 + 2, Digit) ELSE 0 IN
    IF n1 + n2 = 0 THEN [nan |-> TRUE, num |-> 0, den |-> 1]
    ELSE [nan |-> FALSE,
          num |-> DigitsValue(SubSeq(s, 1, n1)) * Pow10(n2) + DigitsValue(SubSeq(s, n1 + 2, n1 + 1 + n2)),
          den |-> Pow10(n2)]

\* the decimal digits of a natural number
RECURSIVE NatToText(_)
NatToText(n) ==
    IF n < 10 THEN <<CodeOrder[n + 1]>> ELSE NatToText(n \div 10) \o <<CodeOrder[(n % 10) + 1]>>

\* faulty variant: the percentage is cut after the last digit kept
ToFixed_Truncating(a, b, digits) ==
    LET mag == IF a < 0 THEN 0 - a ELSE a
        scaled == (mag * Pow10(digits)) \div b
        sign == IF a < 0 THEN <<"-">> ELSE <<>> IN
    IF digits = 0 THEN sign \o NatToText(scaled)
    ELSE sign \o NatToText(scaled \div 10) \o <<".">> \o NatToText(scaled % 10)

\* (a / b).toFixed(digits) for b > 0 and digits in {0, 1}: the magnitude rounded half up, the sign
\* kept (binary floating point is not modelled: the quotient is exact)
ToFixed(a, b, digits) ==
    LET mag == IF a < 0 THEN 0 - a ELSE a
        scaled == (2 * mag * Pow10(digits) + b) \div (2 * b)
        sign == IF a < 0 THEN <<"-">> ELSE <<>> IN
    IF digits = 0 THEN sign \o NatToText(scaled)
    ELSE sign \o NatToText(scaled \div 10) \o <<".">> \o NatToText(scaled % 10)

\* the discount the code computes from the two prices when the API gives none; <<>> when the
\* guards leave it empty
ComputedDiscount(originalPrice, salePrice, digits) ==
    LET original == ParseFloat(KeepNumeric(originalPrice))
        sale == ParseFloat(KeepNumeric(salePrice)) IN
    IF ~original.nan /\ ~sale.nan /\ original.num > 0 /\ sale.num > 0
        THEN \* ((original - sale) / original) * 100
             ToFixed(100 * (original.num * sale.den - sale.num * original.den),
                     original.num * sale.den, digits) \o <<"%">>
        ELSE <<>>

\* shopUrl.split('/store/')[1].split('/')[0].split('?')[0]
StoreId(shopUrl) ==
    LET p == MinOf({q \in 1..Len(shopUrl) : LitAt(shopUrl, q, LitStore)}) + Len(LitStore)
        n == CHOOSE m \in 0..(Len(shopUrl) + 1) :
                 /\ \A k \in 0..(m - 1) : At(shopUrl, p + k) \notin {"/", "?", ""}
                 /\ At(shopUrl, p + m) \in {"/", "?", ""} IN
    SubSeq(shopUrl, p, p + n - 1)

\* s.replace(/lit/g, rep)
RECURSIVE ReplaceAll(_, _, _)
ReplaceAll(s, lit, rep) ==
    IF s = <<>> THEN <<>>
    ELSE IF LitAt(s, 1, lit) THEN rep \o ReplaceAll(SubSeq(s, Len(lit) + 1, Len(s)), lit, rep)
    ELSE <<Head(s)>> \o ReplaceAll(Tail(s), lit, rep)

\* s.trim()
RECURSIVE Trim(_)
Trim(s) ==
    IF s = <<>> THEN <<>>
    ELSE IF Head(s) = " " THEN Trim(Tail(s))
    ELSE IF s[Len(s)] = " " THEN Trim(SubSeq(s, 1, Len(s) - 1))
    ELSE s

\* s.substring(0, n), s.slice(0, n)
Truncate(s, n) == SubSeq(s, 1, IF Len(s) < n THEN Len(s) ELSE n)

\* a match of /_\d+x\d+\.(jpg|png|webp).*/ starts at p
ThumbSuffixAt(s, p) ==
    /\ At(s, p) = "_"
    /\ LET n1 == RunLen(s, p + 1, Digit)
           q == p + 1 + n1
           n2 == RunLen(s, q + 1, Digit)
           r == q + 1 + n2 IN
       /\ n1 >= 1 /\ At(s, q) = "x" /\ n2 >= 1 /\ At(s, r) = "."
       /\ \E ext \in {LitJpg, LitPng, LitWebp} : LitAt(s, r + 1, ext)

\* imageUrl.replace(/_\d+x\d+\.(jpg|png|webp).*/, '')
StripThumb(s) ==
    LET S == {p \in 1..Len(s) : ThumbSuffixAt(s, p)} IN
    IF S = {} THEN s ELSE SubSeq(s, 1, MinOf(S) - 1)

(***************************************************************************)
(* getProductDetailsFromApi.  body is what the detail endpoint answered:   *)
(* kind "throw" (fetch or response.json() threw), "error_response",        *)
(* "empty" (no product list), or "product" with the first product, a       *)
(* function from the fields present to their values.  The result is        *)
(* [ok |-> FALSE] when the function throws, else [ok |-> TRUE, data |-> _]. *)
(***************************************************************************)
getProductDetailsFromApiRich(body) ==
    IF body.kind # "product" THEN [ok |-> FALSE]
    ELSE LET product == body.product
             salePrice == OrElseSeq(Field(product, "target_sale_price", <<>>),
                              OrElseSeq(Field(product, "app_sale_price", <<>>), LitNA))
             originalPrice == OrElseSeq(Field(product, "target_original_price", <<>>),
                                  OrElseSeq(Field(product, "original_price", <<>>), LitNA))
             given == Field(product, "target_discount", "")
             discount == IF given = "" /\ originalPrice # LitNA /\ salePrice # LitNA
                             THEN Str(ComputedDiscount(originalPrice, salePrice, 1))
                             ELSE given
             rawShop == OrElseSeq(Field(product, "shop_url", <<>>), LitNA)
             shopUrl == IF Includes(rawShop, LitStore)
                            THEN "https://m.aliexpress.com/store/" \o Str(StoreId(rawShop))
                                 \o "?shopId=" \o Str(StoreId(rawShop))
                            ELSE Str(rawShop) IN
         [ok |-> TRUE,
          data |-> [title |-> OrElse(Field(product, "product_title", ""), "Unknown Product"),
                    price |-> Str(salePrice) \o " USD",
                    originalPrice |-> Str(originalPrice) \o " USD",
                    discount |-> OrElse(discount, "0%"),
                    storeName |-> OrElse(Field(product, "shop_name", ""), "Unknown Store"),
                    evaluateRate |-> OrElse(Field(product, "product_score", ""),
                                        OrElse(Field(product, "evaluate_rate", ""), "N/A")),
                    shopUrl |-> shopUrl,
                    categoryName |-> OrElse(Field(product, "first_level_category_name", ""), "N/A"),
                    commissionRate |-> OrElse(Field(product, "commission_rate", ""), "N/A"),
                    orders |-> OrElse(Field(product, "lastest_volume", ""), "N/A"),
                    imageUrl |-> OrElse(Field(product, "product_main_image_url", ""),
                                    OrElse(Field(product, "first_image_url", ""), Null)),
                    shipping_fees |-> OrElse(Field(product, "shipping_fees", ""), "Free Shipping")]]

getProductDetailsFromApiSimple(body) ==
    IF body.kind # "product" THEN [ok |-> FALSE]
    ELSE LET product == body.product
             salePrice == OrElseSeq(Field(product, "target_sale_price", <<>>),
                              OrElseSeq(Field(product, "app_sale_price", <<>>), LitNA))
             originalPrice == OrElseSeq(Field(product, "target_original_price", <<>>),
                                  OrElseSeq(Field(product, "original_price", <<>>), LitNA))
             given == Field(product, "target_discount", "")
             discount == IF given = "" /\ originalPrice # LitNA /\ salePrice # LitNA
                             THEN Str(ComputedDiscount(originalPrice, salePrice, 0))
                             ELSE given IN
         [ok |-> TRUE,
          data |-> [title |-> OrElse(Field(product, "product_title", ""), "Unknown Product"),
                    price |-> "$" \o Str(salePrice) \o " USD",
                    originalPrice |-> "$" \o Str(originalPrice) \o " USD",
                    discount |-> OrElse(discount, "0%"),
                    storeName |-> OrElse(Field(product, "shop_name", ""), "Unknown Store"),
                    imageUrl |-> Null]]

getProductDetailsFromApi(v, body) ==
    IF v = "rich" THEN getProductDetailsFromApiRich(body) ELSE getProductDetailsFromApiSimple(body)

(***************************************************************************)
(* getProductDetails (the scrape).  page is what the product page gave:    *)
(* kind "throw" (the request failed, or in part_006 was not ok), or "page" *)
(* with the candidates the extraction cascade finds: subject (the inline   *)
(* JSON title), metaTitle (the meta tag / <title> fallback), imagePath     *)
(* (the inline JSON image) and ogImage (the meta tag fallback); <<>> where *)
(* the page has none.                                                      *)
(***************************************************************************)
getProductDetailsRich(page) ==
    IF page.kind = "throw" THEN [title |-> "AliExpress Product", imageUrl |-> Null]
    ELSE LET title == OrElseSeq(page.subject, page.metaTitle)
             cleanTitle ==
                 IF title # <<>>
                     THEN Trim(Truncate(ReplaceAll(ReplaceAll(ReplaceAll(ReplaceAll(
                              title, LitAmp, <<"&">>), LitQuot, <<"\"">>), LitLt, <<"<">>), LitGt, <<">">>),
                              TitleLimitRich))
                     ELSE title
             imageUrl == OrElseSeq(page.imagePath, page.ogImage)
             cleanImage ==
                 IF imageUrl # <<>>
                     THEN StripThumb(IF LitAt(imageUrl, 1, LitSlashSlash)
                                         THEN LitHttps \o imageUrl ELSE imageUrl)
                     ELSE imageUrl IN
         [title |-> OrElse(Str(cleanTitle), "AliExpress Product"),
          imageUrl |-> OrElse(Str(cleanImage), Null)]

getProductDetailsSimple(page) ==
    IF page.kind = "throw" THEN [title |-> "Unable to extract title", imageUrl |-> Null]
    ELSE LET title == OrElseSeq(page.subject, page.metaTitle)
             imageUrl ==
                 IF page.imagePath # <<>>
                     THEN IF LitAt(page.imagePath, 1, LitHttp)
                              THEN page.imagePath ELSE LitHttps \o page.imagePath
                     ELSE page.ogImage IN
         [title |-> IF title # <<>> THEN Str(Trim(Truncate(title, TitleLimitSimple)))
                                    ELSE "Unable to extract title",
          imageUrl |-> OrElse(Str(imageUrl), Null)]

getProductDetails(v, page) ==
    IF v = "rich" THEN getProductDetailsRich(page) ELSE getProductDetailsSimple(page)

(***************************************************************************)
(* generateAffiliateLink and the offer tables of generateAllOffers.        *)
(***************************************************************************)
\* const offersPrimary of routes.ts
offersPrimaryRich(pid) ==
    <<
       [name |-> "Coin Page Offer",
        url |-> <<"h","t","t","p","s",":","/","/","m",".","a","l","i","e","x","p","r","e","s","s",".","c","o","m","/","p","/","c","o","i","n","-","i","n","d","e","x","/","i","n","d","e","x",".","h","t","m","l","?","_","i","m","m","e","r","s","i","v","e","M","o","d","e","=","t","r","u","e","&","p","r","o","d","u","c","t","I","d","s","=">> \o pid],
       [name |-> "Direct Product Link",
        url |-> <<"h","t","t","p","s",":","/","/","w","w","w",".","a","l","i","e","x","p","r","e","s","s",".","c","o","m","/","i","t","e","m","/">> \o pid \o <<".","h","t","m","l","?","s","o","u","r","c","e","T","y","p","e","=","6","2","0">>],
       [name |-> "Super Deals",
        url |-> <<"h","t","t","p","s",":","/","/","w","w","w",".","a","l","i","e","x","p","r","e","s","s",".","c","o","m","/","i","t","e","m","/">> \o pid \o <<".","h","t","m","l","?","s","o","u","r","c","e","T","y","p","e","=","5","6","2">>],
       [name |-> "Big Save Discount",
        url |-> <<"h","t","t","p","s",":","/","/","w","w","w",".","a","l","i","e","x","p","r","e","s","s",".","c","o","m","/","i","t","e","m","/">> \o pid \o <<".","h","t","m","l","?","s","o","u","r","c","e","T","y","p","e","=","6","8","0">>],
       [name |-> "Limited Discount",
        url |-> <<"h","t","t","p","s",":","/","/","w","w","w",".","a","l","i","e","x","p","r","e","s","s",".","c","o","m","/","i","t","e","m","/">> \o pid \o <<".","h","t","m","l","?","s","o","u","r","c","e","T","y","p","e","=","5","6","1">>],
       [name |-> "Potential Discount",
        url |-> <<"h","t","t","p","s",":","/","/","w","w","w",".","a","l","i","e","x","p","r","e","s","s",".","c","o","m","/","i","t","e","m","/">> \o pid \o <<".","h","t","m","l","?","s","o","u","r","c","e","T","y","p","e","=","5","0","4">>],
       [name |-> "Bundle Direct",
        url |-> <<"h","t","t","p","s",":","/","/","w","w","w",".","a","l","i","e","x","p","r","e","s","s",".","c","o","m","/","i","t","e","m","/">> \o pid \o <<".","h","t","m","l","?","s","o","u","r","c","e","T","y","p","e","=","5","7","0">>],
       [name |-> "Bundle Deals Page",
        url |-> <<"h","t","t","p","s",":","/","/","w","w","w",".","a","l","i","e","x","p","r","e","s","s",".","c","o","m","/","s","s","r","/","3","0","0","0","0","0","5","1","2","/","B","u","n","d","l","e","D","e","a","l","s","2","?","&","p","h","a","_","m","a","n","i","f","e","s","t","=","s","s","r","&","p","r","o","d","u","c","t","I","d","s","=">> \o pid]
    >>

\* const offersSecondary of routes.ts
offersSecondaryRich(pid) ==
    <<
       [name |-> "Coin Page Offer",
        url |-> <<"h","t","t","p","s",":","/","/","s","t","a","r",".","a","l","i","e","x","p","r","e","s","s",".","c","o","m","/","s","h","a","r","e","/","s","h","a","r","e",".","h","t","m","?","r","e","d","i","r","e","c","t","U","r","l","=","h","t","t","p","s",":","/","/","m",".","a","l","i","e","x","p","r","e","s","s",".","c","o","m","/","p","/","c","o","i","n","-","i","n","d","e","x","/","i","n","d","e","x",".","h","t","m","l","?","_","i","m","m","e","r","s","i","v","e","M","o","d","e","=","t","r","u","e","&","p","r","o","d","u","c","t","I","d","s","=">> \o pid],
       [name |-> "Direct Product Link",
        url |-> <<"h","t","t","p","s",":","/","/","s","t","a","r",".","a","l","i","e","x","p","r","e","s","s",".","c","o","m","/","s","h","a","r","e","/","s","h","a","r","e",".","h","t","m","?","r","e","d","i","r","e","c","t","U","r","l","=","h","t","t","p","s",":","/","/","w","w","w",".","a","l","i","e","x","p","r","e","s","s",".","c","o","m","/","i","t","e","m","/">> \o pid \o <<".","h","t","m","l","?","s","o","u","r","c","e","T","y","p","e","=","6","2","0">>],
       [name |-> "Super Deals",
        url |-> <<"h","t","t","p","s",":","/","/","s","t","a","r",".","a","l","i","e","x","p","r","e","s","s",".","c","o","m","/","s","h","a","r","e","/","s","h","a","r","e",".","h","t","m","?","r","e","d","i","r","e","c","t","U","r","l","=","h","t","t","p","s",":","/","/","w","w","w",".","a","l","i","e","x","p","r","e","s","s",".","c","o","m","/","i","t","e","m","/">> \o pid \o <<".","h","t","m","l","?","s","o","u","r","c","e","T","y","p","e","=","5","6","2">>],
       [name |-> "Big Save Discount",
        url |-> <<"h","t","t","p","s",":","/","/","s","t","a","r",".","a","l","i","e","x","p","r","e","s","s",".","c","o","m","/","s","h","a","r","e","/","s","h","a","r","e",".","h","t","m","?","r","e","d","i","r","e","c","t","U","r","l","=","h","t","t","p","s",":","/","/","w","w","w",".","a","l","i","e","x","p","r","e","s","s",".","c","o","m","/","i","t","e","m","/">> \o pid \o <<".","h","t","m","l","?","s","o","u","r","c","e","T","y","p","e","=","6","8","0">>],
       [name |-> "Limited Discount",
        url |-> <<"h","t","t","p","s",":","/","/","s","t","a","r",".","a","l","i","e","x","p","r","e","s","s",".","c","o","m","/","s","h","a","r","e","/","s","h","a","r","e",".","h","t","m","?","r","e","d","i","r","e","c","t","U","r","l","=","h","t","t","p","s",":","/","/","w","w","w",".","a","l","i","e","x","p","r","e","s","s",".","c","o","m","/","i","t","e","m","/">> \o pid \o <<".","h","t","m","l","?","s","o","u","r","c","e","T","y","p","e","=","5","6","1">>],
       [name |-> "Potential Discount",
        url |-> <<"h","t","t","p","s",":","/","/","s","t","a","r",".","a","l","i","e","x","p","r","e","s","s",".","c","o","m","/","s","h","a","r","e","/","s","h","a","r","e",".","h","t","m","?","r","e","d","i","r","e","c","t","U","r","l","=","h","t","t","p","s",":","/","/","w","w","w",".","a","l","i","e","x","p","r","e","s","s",".","c","o","m","/","i","t","e","m","/">> \o pid \o <<".","h","t","m","l","?","s","o","u","r","c","e","T","y","p","e","=","5","0","4">>],
       [name |-> "Bundle Direct",
        url |-> <<"h","t","t","p","s",":","/","/","s","t","a","r",".","a","l","i","e","x","p","r","e","s","s",".","c","o","m","/","s","h","a","r","e","/","s","h","a","r","e",".","h","t","m","?","r","e","d","i","r","e","c","t","U","r","l","=","h","t","t","p","s",":","/","/","w","w","w",".","a","l","i","e","x","p","r","e","s","s",".","c","o","m","/","i","t","e","m","/">> \o pid \o <<".","h","t","m","l","?","s","o","u","r","c","e","T","y","p","e","=","5","7","0">>],
       [name |-> "Bundle Deals Page",
        url |-> <<"h","t","t","p","s",":","/","/","s","t","a","r",".","a","l","i","e","x","p","r","e","s","s",".","c","o","m","/","s","h","a","r","e","/","s","h","a","r","e",".","h","t","m","?","r","e","d","i","r","e","c","t","U","r","l","=","h","t","t","p","s",":","/","/","w","w","w",".","a","l","i","e","x","p","r","e","s","s",".","c","o","m","/","s","s","r","/","3","0","0","0","0","0","5","1","2","/","B","u","n","d","l","e","D","e","a","l","s","2","?","&","p","h","a","_","m","a","n","i","f","e","s","t","=","s","s","r","&","p","r","o","d","u","c","t","I","d","s","=">> \o pid]
    >>

\* faulty variant: the second and third rows of the table have changed places
offersPrimarySimple_RowsSwapped(pid) ==
    [offersPrimaryRich(pid) EXCEPT ![2] = offersPrimaryRich(pid)[3],
                                   ![3] = offersPrimaryRich(pid)[2]]

\* const offersPrimary of part_006
offersPrimarySimple(pid) ==
    <<
       [name |-> "Coin Page Offer",
        url |-> <<"h","t","t","p","s",":","/","/","m",".","a","l","i","e","x","p","r","e","s","s",".","c","o","m","/","p","/","c","o","i","n","-","i","n","d","e","x","/","i","n","d","e","x",".","h","t","m","l","?","_","i","m","m","e","r","s","i","v","e","M","o","d","e","=","t","r","u","e","&","p","r","o","d","u","c","t","I","d","s","=">> \o pid],
       [name |-> "Direct Product Link",
        url |-> <<"h","t","t","p","s",":","/","/","w","w","w",".","a","l","i","e","x","p","r","e","s","s",".","c","o","m","/","i","t","e","m","/">> \o pid \o <<".","h","t","m","l","?","s","o","u","r","c","e","T","y","p","e","=","6","2","0">>],
       [name |-> "Super Deals",
        url |-> <<"h","t","t","p","s",":","/","/","w","w","w",".","a","l","i","e","x","p","r","e","s","s",".","c","o","m","/","i","t","e","m","/">> \o pid \o <<".","h","t","m","l","?","s","o","u","r","c","e","T","y","p","e","=","5","6","2">>],
       [name |-> "Big Save Discount",
        url |-> <<"h","t","t","p","s",":","/","/","w","w","w",".","a","l","i","e","x","p","r","e","s","s",".","c","o","m","/","i","t","e","m","/">> \o pid \o <<".","h","t","m","l","?","s","o","u","r","c","e","T","y","p","e","=","6","8","0">>],
       [name |-> "Limited Discount",
        url |-> <<"h","t","t","p","s",":","/","/","w","w","w",".","a","l","i","e","x","p","r","e","s","s",".","c","o","m","/","i","t","e","m","/">> \o pid \o <<".","h","t","m","l","?","s","o","u","r","c","e","T","y","p","e","=","5","6","1">>],
       [name |-> "Potential Discount",
        url |-> <<"h","t","t","p","s",":","/","/","w","w","w",".","a","l","i","e","x","p","r","e","s","s",".","c","o","m","/","i","t","e","m","/">> \o pid \o <<".","h","t","m","l","?","s","o","u","r","c","e","T","y","p","e","=","5","0","4">>],
       [name |-> "Bundle Direct",
        url |-> <<"h","t","t","p","s",":","/","/","w","w","w",".","a","l","i","e","x","p","r","e","s","s",".","c","o","m","/","i","t","e","m","/">> \o pid \o <<".","h","t","m","l","?","s","o","u","r","c","e","T","y","p","e","=","5","7","0">>],
       [name |-> "Bundle Deals Page",
        url |-> <<"h","t","t","p","s",":","/","/","w","w","w",".","a","l","i","e","x","p","r","e","s","s",".","c","o","m","/","s","s","r","/","3","0","0","0","0","0","5","1","2","/","B","u","n","d","l","e","D","e","a","l","s","2","?","&","p","h","a","_","m","a","n","i","f","e","s","t","=","s","s","r","&","p","r","o","d","u","c","t","I","d","s","=">> \o pid]
    >>

LitShare == <<"h","t","t","p","s",":","/","/","s","t","a","r",".","a","l","i","e","x","p","r","e","s","s",".","c","o","m","/","s","h","a","r","e","/","s","h","a","r","e",".","h","t","m","?","r","e","d","i","r","e","c","t","U","r","l","=">>

\* encodeURIComponent of one character: the unreserved characters stay, the others become
\* their %XX escape
EncodeChar(c) ==
    CASE c = " " -> <<"%","2","0">>
      [] c = "#" -> <<"%","2","3">>
      [] c = "$" -> <<"%","2","4">>
      [] c = "%" -> <<"%","2","5">>
      [] c = "&" -> <<"%","2","6">>
      [] c = "+" -> <<"%","2","B">>
      [] c = "," -> <<"%","2","C">>
      [] c = "/" -> <<"%","2","F">>
      [] c = ":" -> <<"%","3","A">>
      [] c = ";" -> <<"%","3","B">>
      [] c = "=" -> <<"%","3","D">>
      [] c = "?" -> <<"%","3","F">>
      [] c = "@" -> <<"%","4","0">>
      [] OTHER -> <<c>>

RECURSIVE encodeURIComponent(_)
encodeURIComponent(s) ==
    IF s = <<>> THEN <<>>
    ELSE IF Len(s) = 1 THEN EncodeChar(s[1])
    ELSE encodeURIComponent(SubSeq(s, 1, Len(s) \div 2))
         \o encodeURIComponent(SubSeq(s, (Len(s) \div 2) + 1, Len(s)))

\* faulty variant: each wrapper is built from the target of the next offer
offersSecondarySimple_NextTarget(pid) ==
    [k \in 1..Len(offersPrimarySimple(pid)) |->
        [name |-> offersPrimarySimple(pid)[k].name,
         url |-> LitShare \o encodeURIComponent(offersPrimarySimple(pid)[(k % 8) + 1].url)]]

\* const offersSecondary of part_006: offersPrimary.map((offer) => `...redirectUrl=${encodeURIComponent(offer.url)}`)
offersSecondarySimple(pid) ==
    [k \in 1..Len(offersPrimarySimple(pid)) |->
        [name |-> offersPrimarySimple(pid)[k].name,
         url |-> LitShare \o encodeURIComponent(offersPrimarySimple(pid)[k].url)]]

\* a table with its urls as strings
AsStrings(table) == [k \in 1..Len(table) |-> [name |-> table[k].name, url |-> Str(table[k].url)]]

offersPrimary(v, pid) ==
    AsStrings(IF v = "rich" THEN offersPrimaryRich(pid) ELSE offersPrimarySimple(pid))

offersSecondary(v, pid) ==
    AsStrings(IF v = "rich" THEN offersSecondaryRich(pid) ELSE offersSecondarySimple(pid))

\* !x for a value that is a string, null or undefined
Falsy(x) == x \in {Null, ""}

\* promotionLinks[0].promotion_link of an answer of the link endpoint that holds a link for
\* source_values = src
PromotionLinkFor(src) == "https://s.click.aliexpress.com/e/_" \o src

\* what the first fetch of generateAffiliateLink (the bare GET of the endpoint) can do
BareOutcomes == {"ok", "throw"}

\* what the second, signed fetch can do: throw (also response.json() throwing), answer without
\* promotion links, answer with a first promotion link that is empty, or with a link
SignedOutcomes == {"throw", "nothing", "empty", "link"}

\* the outcomes <<bare, signed>> the link endpoint can produce for one call, given how it
\* behaves during the request: "free" (anything, call by call), "up" (always a link), "down"
\* (always an error), "primaryDown" (an error for a primary source, a link for a wrapper)
LinkOutcomes(service, attempt) ==
    LET all == BareOutcomes \X SignedOutcomes
        failing == {o \in all : o[1] = "throw" \/ o[2] \in {"throw", "nothing"}} IN
    CASE service = "free" -> all
      [] service = "up" -> {<<"ok", "link">>}
      [] service = "down" -> failing
      [] service = "primaryDown" -> IF attempt = "primary" THEN failing ELSE {<<"ok", "link">>}

\* generateAffiliateLink(src, ...): both fetches are inside its try, whose catch returns null
generateAffiliateLink(src, bare, signed) ==
    IF bare = "throw" \/ signed = "throw" THEN Null
    ELSE IF signed = "link" THEN PromotionLinkFor(src)
    ELSE IF signed = "empty" THEN ""
    ELSE Null

\* faulty variant of the push: a failed offer falls back to the wrapper URL, not to the
\* primary target
OfferItem_WrapperFallback(primaryOffer, link) ==
    [name |-> primaryOffer.name,
     link |-> IF Falsy(link)
                  THEN "https://star.aliexpress.com/share/share.htm?redirectUrl=" \o primaryOffer.url
                  ELSE link,
     success |-> ~Falsy(link)]

\* results.push({ name, link: affiliateLink || url, success: !!affiliateLink })
OfferItem(primaryOffer, link) ==
    [name |-> primaryOffer.name,
     link |-> IF Falsy(link) THEN primaryOffer.url ELSE link,
     success |-> ~Falsy(link)]

(***************************************************************************)
(* The requests and the upstream answers the model draws from.             *)
(***************************************************************************)
Variants == {"rich", "simple"}

\* request urls that fail validation: empty, and a product URL of another site
UrlEmpty == <<>>

UrlOtherSite == <<"h","t","t","p","s",":","/","/","e","x","a","m","p","l","e",".","c","o","m","/","f","o","o">>

\* request urls that pass validation: a product page, a short link without an id, and a
\* message with text around a product link
UrlProduct == <<"h","t","t","p",":","/","/","a","l","i","e","x","p","r","e","s","s",".","c","o","m","/","i","t","e","m","/","1","1",".","h","t","m","l">>

UrlShort == <<"h","t","t","p","s",":","/","/","s",".","c","l","i","c","k",".","a","l","i","e","x","p","r","e","s","s",".","c","o","m","/","e","/","x">>

UrlInMessage == <<"g","o"," ","h","t","t","p","s",":","/","/","a","l","i","x",".","l","i","v","e","/","i","/","6","6">>

\* where a redirect chain can land: a product page, a page without an id, a store page
\* whose path ends in the store number
LandingProduct == <<"h","t","t","p","s",":","/","/","w","w","w",".","a","l","i","e","x","p","r","e","s","s",".","c","o","m","/","i","t","e","m","/","3","3",".","h","t","m","l">>

LandingLogin == <<"h","t","t","p","s",":","/","/","l","o","g","i","n",".","a","l","i","e","x","p","r","e","s","s",".","c","o","m","/">>

LandingStore == <<"h","t","t","p","s",":","/","/","w","w","w",".","a","l","i","e","x","p","r","e","s","s",".","c","o","m","/","s","t","o","r","e","/","1","2","3","4","5","6","7","8","9","0">>


Fields == {"url", "appKey", "appSecret", "trackingId"}

\* a url field that is not a string: JSON lets the body carry a number there
UrlNumber == <<"<number>">>

\* typeof v === "string"
IsString(v) == v # UrlNumber

\* req.body: any subset of the four fields, each present field empty or set, the url a text
\* or a number
Requests ==
    { [f \in present |-> v[f]] :
        present \in SUBSET Fields,
        v \in [url : {UrlEmpty, UrlOtherSite, UrlProduct, UrlShort, UrlInMessage, UrlNumber},
               appKey : {"", "512345"},
               appSecret : {"", "s3cr3t"},
               trackingId : {"", "default"}] }

\* the products the detail endpoint can describe: one with prices and no discount field, one
\* with none of the fields the code reads, one whose title is a scrape placeholder
ApiProducts ==
    { [product_title |-> "Earbuds",
       target_sale_price |-> <<"2","0",".","0","0">>,
       target_original_price |-> <<"4","0",".","0","0">>,
       shop_name |-> "Best Store",
       shop_url |-> <<"h","t","t","p","s",":","/","/","w","w","w",".","a","l","i","e","x","p","r","e","s","s",".","c","o","m","/","s","t","o","r","e","/","9","1","2","/","x","?","y","=","1">>,
       product_main_image_url |-> "https://ae01.alicdn.com/kf/api.jpg"],
      [product_id |-> "11"],
      [product_title |-> "Unable to extract title",
       target_discount |-> "25%",
       original_price |-> <<"4","0",".","0","0">>] }

ApiBodies ==
    {[kind |-> "throw"], [kind |-> "error_response"], [kind |-> "empty"]}
    \cup {[kind |-> "product", product |-> pr] : pr \in ApiProducts}

\* what the product page can give: nothing, a page with title and image, a page whose only
\* title is blank
ScrapePages ==
    { [kind |-> "throw"],
      [kind |-> "page",
       subject |-> <<"T","V","&","a","m","p",";","B","o","x"," ">>,
       metaTitle |-> <<>>,
       imagePath |-> <<"/","/","a",".","c","o","/","k","f","/","s",".","j","p","g","_","2","x","2",".","j","p","g">>,
       ogImage |-> <<>>],
      [kind |-> "page", subject |-> <<>>, metaTitle |-> <<" ">>, imagePath |-> <<>>, ogImage |-> <<>>] }

(***************************************************************************)
(* POST /api/product.  The handler is an async function: it runs from one  *)
(* await to the next without interruption, so there is one action per      *)
(* await, which takes what the awaited call gave and runs the code up to   *)
(* the next await (or to the response).  pc names the call being awaited.  *)
(***************************************************************************)
NoCalls == [redirect |-> 0, api |-> 0, scrape |-> 0, link |-> 0]

\* an upstream call leaves the process: fetch(...) is called; kind is "redirect" (the HEAD of
\* resolveRedirects), "api" (the detail call), "scrape" (the product page) or "link" (a
\* generateAffiliateLink call, arg its url argument); creds are the credentials the call is
\* signed with, <<>> for a call that is not signed
Started(kind, arg, creds) == <<"start", kind, arg, creds>>

\* the await of that call is over: result is what the awaited function returned
Finished(kind, result) == <<"end", kind, result>>

\* what the caller of generateAffiliateLink can tell of its result: the link, or that there
\* is none (null and "" are both falsy, and the loop tests nothing else)
Returned(link) == IF Falsy(link) THEN Null ELSE link

\* faulty variant: the credentials are kept in module-level variables, which the arrival
\* of a later request overwrites, so that every call is signed with the credentials of the
\* request that arrived last
Credentials_ModuleLevel(body) == <<"598765", "0th3r", "second">>

\* the appKey, appSecret, trackingId arguments the handler passes on: its own locals,
\* destructured from req.body
Credentials(body) == <<body["appKey"], body["appSecret"], body["trackingId"]>>

\* nothing runs beside the one request, no storage, no stand-alone call
MoreIdle ==
    /\ twin = <<>>
    /\ formatted = <<>>
    /\ savers = <<>>
    /\ users = {}
    /\ auth = <<>>

AuxIdle ==
    /\ MoreIdle
    /\ flight = <<>>
    /\ overlap = FALSE
    /\ stored = <<>>
    /\ lastSaved = <<>>
    /\ call = <<>>

NotSent == [status |-> 0]

\* let productData = { title: "", price: "N/A", ... }
DefaultProductData(v) ==
    IF v = "rich"
        THEN [title |-> "", price |-> "N/A", originalPrice |-> "N/A", discount |-> "0%",
              storeName |-> "Unknown Store", evaluateRate |-> "N/A", shopUrl |-> "N/A",
              categoryName |-> "N/A", commissionRate |-> "N/A", orders |-> "N/A",
              imageUrl |-> Null, shipping_fees |-> "Free Shipping"]
        ELSE [title |-> "", price |-> "N/A", originalPrice |-> "N/A", discount |-> "0%",
              storeName |-> "Unknown Store", imageUrl |-> Null]

\* { ...a, ...b }
Spread(a, b) ==
    [f \in (DOMAIN a) \cup (DOMAIN b) |-> IF f \in DOMAIN b THEN b[f] ELSE a[f]]

\* the titles the handler lets the scrape replace
TitlePlaceholders(v) ==
    IF v = "rich" THEN {"", "Unknown Product", "Unable to extract title"}
                  ELSE {"", "Unknown Product"}

\* faulty variant of the merge: the scraped title always wins
Backfill_ScrapeWins(v, pd, scraped) ==
    [pd EXCEPT !.title = scraped.title,
               !.imageUrl = IF Falsy(pd.imageUrl) THEN scraped.imageUrl ELSE @]

\* if (!productData.title || ...) productData.title = scrapedData.title;
\* if (!productData.imageUrl) productData.imageUrl = scrapedData.imageUrl;
Backfill(v, pd, scraped) ==
    [pd EXCEPT !.title = IF pd.title \in TitlePlaceholders(v) THEN scraped.title ELSE @,
               !.imageUrl = IF Falsy(pd.imageUrl) THEN scraped.imageUrl ELSE @]

\* const response: ProductResponse = { id, productId, ...productData fields, searchedAt, offers }
ProductResponse(pid, pd, offers) ==
    Spread(pd, [id |-> Str(pid) \o "-<Date.now()>",
                productId |-> Str(pid),
                searchedAt |-> "<new Date().toISOString()>",
                offers |-> offers])

\* !url, !appKey, ...
FieldFalsy(body, f) == f \notin DOMAIN body \/ body[f] = (IF f = "url" THEN <<>> ELSE "")

\* the first match of urlPattern in the url (routes.ts), the url itself (part_006)
CleanUrl(v, url) ==
    IF v = "rich" /\ UrlsFrom(url, 1) # <<>> THEN UrlsFrom(url, 1)[1] ELSE url

\* what await fetch(cleanUrl, {method: "HEAD", redirect: "follow"}) can give: "throw" (always
\* possible, and the only outcome for a text fetch cannot parse as a URL), or the URL the
\* chain ended at
RedirectOutcomes(target) ==
    {<<"throw">>}
    \cup (IF UrlStartsAt(target, 1)
              THEN {target, LandingProduct, LandingLogin, LandingStore}
              ELSE {})

\* resolveRedirects(url), given what fetch did
resolveRedirects(v, url, outcome) ==
    IF outcome = <<"throw">> THEN CleanUrl(v, url) ELSE outcome

\* what a failed property call throws: url.includes when url has no such method
TypeError(message) == [isError |-> TRUE, message |-> message]

\* faulty variant of the catch: the status is left at its default, only the body is set
HandlerCatch_NoStatus(thrown) ==
    [status |-> 200,
     body |-> [message |-> IF thrown.isError THEN thrown.message
                           ELSE "Failed to process product"]]

\* } catch (error) { return res.status(500).json({ message: ... }) }
HandlerCatch(thrown) ==
    [status |-> 500,
     message |-> IF thrown.isError THEN thrown.message ELSE "Failed to process product"]

\* faulty variant of the validation gate: the credentials are checked before the url
Validate_CredentialsFirst ==
    /\ pc = "received"
    /\ IF FieldFalsy(req, "appKey") \/ FieldFalsy(req, "appSecret")
          \/ FieldFalsy(req, "trackingId")
           THEN /\ res' = [status |-> 400, message |-> "API credentials are required"]
                /\ pc' = "done"
                /\ UNCHANGED <<net, events>>
       ELSE IF FieldFalsy(req, "url")
           THEN /\ res' = [status |-> 400, message |-> "URL is required"]
                /\ pc' = "done"
                /\ UNCHANGED <<net, events>>
       ELSE IF ~IsString(req["url"])
           THEN /\ res' = HandlerCatch(TypeError("url.includes is not a function"))
                /\ pc' = "done"
                /\ UNCHANGED <<net, events>>
       ELSE IF ~HasDomain(req["url"])
           THEN /\ res' = [status |-> 400, message |-> "Please provide a valid AliExpress URL"]
                /\ pc' = "done"
                /\ UNCHANGED <<net, events>>
       ELSE /\ res' = res
            /\ pc' = "resolve"
            /\ net' = [net EXCEPT !.redirect = @ + 1]
            /\ events' = <<Started("redirect", "", <<>>)>>
    /\ UNCHANGED <<variant, req, finalUrl, productId, apiOk, apiData, scrapedData,
                   productData, offersPrimaryV, offersSecondaryV, i, results, linkLog,
                   linkService, redirectOk, scrapeOk, attemptReturns,
                   extractVars, sigVars, phase, auxVars>>

\* app.post("/api/product", ...) up to await resolveRedirects(url)
Validate ==
    /\ pc = "received"
    /\ IF FieldFalsy(req, "url")
           THEN /\ res' = [status |-> 400, message |-> "URL is required"]
                /\ pc' = "done"
                /\ UNCHANGED <<net, events>>
       ELSE IF FieldFalsy(req, "appKey") \/ FieldFalsy(req, "appSecret")
               \/ FieldFalsy(req, "trackingId")
           THEN /\ res' = [status |-> 400, message |-> "API credentials are required"]
                /\ pc' = "done"
                /\ UNCHANGED <<net, events>>
       ELSE IF ~IsString(req["url"])
           THEN /\ res' = HandlerCatch(TypeError("url.includes is not a function"))
                /\ pc' = "done"
                /\ UNCHANGED <<net, events>>
       ELSE IF ~HasDomain(req["url"])
           THEN /\ res' = [status |-> 400, message |-> "Please provide a valid AliExpress URL"]
                /\ pc' = "done"
                /\ UNCHANGED <<net, events>>
       ELSE /\ res' = res
            /\ pc' = "resolve"
            /\ net' = [net EXCEPT !.redirect = @ + 1]
            /\ events' = <<Started("redirect", "", <<>>)>>
    /\ UNCHANGED <<variant, req, finalUrl, productId, apiOk, apiData, scrapedData,
                   productData, offersPrimaryV, offersSecondaryV, i, results, linkLog,
                   linkService, redirectOk, scrapeOk, attemptReturns,
                   extractVars, sigVars, phase, auxVars>>

\* faulty variant: the handler goes on to the detail call without looking at productId
ResolveReturns_NoIdCheck ==
    /\ pc = "resolve"
    /\ \E outcome \in RedirectOutcomes(CleanUrl(variant, req["url"])) :
         LET final == resolveRedirects(variant, req["url"], outcome) IN
         /\ finalUrl' = final
         /\ redirectOk' = (outcome # <<"throw">>)
         /\ productId' = OrElseSeq(extractProductId(variant, final),
                                   extractProductId(variant, req["url"]))
         /\ events' = events \o <<Finished("redirect", final),
                                   Started("api", "", Credentials(req))>>
    /\ productData' = DefaultProductData(variant)
    /\ net' = [net EXCEPT !.api = @ + 1]
    /\ pc' = "api"
    /\ res' = res
    /\ UNCHANGED <<variant, req, apiOk, apiData, scrapedData, offersPrimaryV,
                   offersSecondaryV, i, results, linkLog, linkService, scrapeOk,
                   attemptReturns, extractVars, sigVars, phase, auxVars>>

\* faulty variant: extractProductId(url) || extractProductId(finalUrl)
ResolveReturns_RawFirst ==
    /\ pc = "resolve"
    /\ \E outcome \in RedirectOutcomes(CleanUrl(variant, req["url"])) :
         LET final == resolveRedirects(variant, req["url"], outcome)
             pid == OrElseSeq(extractProductId(variant, req["url"]),
                              extractProductId(variant, final)) IN
         /\ finalUrl' = final
         /\ redirectOk' = (outcome # <<"throw">>)
         /\ productId' = pid
         /\ IF pid = <<>>
                THEN /\ res' = [status |-> 400,
                                message |-> "Could not extract product ID from URL"]
                     /\ pc' = "done"
                     /\ events' = Append(events, Finished("redirect", final))
                     /\ UNCHANGED <<productData, net>>
                ELSE /\ productData' = DefaultProductData(variant)
                     /\ net' = [net EXCEPT !.api = @ + 1]
                     /\ events' = events \o <<Finished("redirect", final),
                                               Started("api", "", Credentials(req))>>
                     /\ pc' = "api"
                     /\ res' = res
    /\ UNCHANGED <<variant, req, apiOk, apiData, scrapedData, offersPrimaryV,
                   offersSecondaryV, i, results, linkLog, linkService, scrapeOk,
                   attemptReturns, extractVars, sigVars, phase, auxVars>>

\* faulty variant: the scrape is started first, as if the detail call were its fallback
ResolveReturns_ScrapeFirst ==
    /\ pc = "resolve"
    /\ \E outcome \in RedirectOutcomes(CleanUrl(variant, req["url"])) :
         LET final == resolveRedirects(variant, req["url"], outcome)
             pid == OrElseSeq(extractProductId(variant, final),
                              extractProductId(variant, req["url"])) IN
         /\ finalUrl' = final
         /\ redirectOk' = (outcome # <<"throw">>)
         /\ productId' = pid
         /\ IF pid = <<>>
                THEN /\ res' = [status |-> 400,
                                message |-> "Could not extract product ID from URL"]
                     /\ pc' = "done"
                     /\ events' = Append(events, Finished("redirect", final))
                     /\ UNCHANGED <<productData, net>>
                ELSE /\ productData' = DefaultProductData(variant)
                     /\ net' = [net EXCEPT !.scrape = @ + 1]
                     /\ events' = events \o <<Finished("redirect", final),
                                               Started("scrape", "", <<>>)>>
                     /\ pc' = "scrape"
                     /\ res' = res
    /\ UNCHANGED <<variant, req, apiOk, apiData, scrapedData, offersPrimaryV,
                   offersSecondaryV, i, results, linkLog, linkService, scrapeOk,
                   attemptReturns, extractVars, sigVars, phase, auxVars>>

\* resolveRedirects returns; productId is extracted; await getProductDetailsFromApi(...)
ResolveReturns ==
    /\ pc = "resolve"
    /\ \E outcome \in RedirectOutcomes(CleanUrl(variant, req["url"])) :
         LET final == resolveRedirects(variant, req["url"], outcome)
             pid == OrElseSeq(extractProductId(variant, final),
                              extractProductId(variant, req["url"])) IN
         /\ finalUrl' = final
         /\ redirectOk' = (outcome # <<"throw">>)
         /\ productId' = pid
         /\ IF pid = <<>>
                THEN /\ res' = [status |-> 400,
                                message |-> "Could not extract product ID from URL"]
                     /\ pc' = "done"
                     /\ events' = Append(events, Finished("redirect", final))
                     /\ UNCHANGED <<productData, net>>
                ELSE /\ productData' = DefaultProductData(variant)
                     /\ net' = [net EXCEPT !.api = @ + 1]
                     /\ events' = events \o <<Finished("redirect", final),
                                               Started("api", "", Credentials(req))>>
                     /\ pc' = "api"
                     /\ res' = res
    /\ UNCHANGED <<variant, req, apiOk, apiData, scrapedData, offersPrimaryV,
                   offersSecondaryV, i, results, linkLog, linkService, scrapeOk,
                   attemptReturns, extractVars, sigVars, phase, auxVars>>

\* faulty variant: no try around the detail call, so its exception reaches the outer catch
ApiReturns_Rethrow ==
    /\ pc = "api"
    /\ \E body \in ApiBodies :
         LET r == getProductDetailsFromApi(variant, body) IN
         /\ apiOk' = r.ok
         /\ apiData' = IF r.ok THEN r.data ELSE <<>>
         /\ productData' = IF r.ok THEN Spread(productData, r.data) ELSE productData
         /\ IF r.ok
                THEN /\ net' = [net EXCEPT !.scrape = @ + 1]
                     /\ events' = events \o <<Finished("api", r), Started("scrape", "", <<>>)>>
                     /\ pc' = "scrape"
                     /\ res' = res
                ELSE /\ net' = net
                     /\ events' = Append(events, Finished("api", r))
                     /\ pc' = "done"
                     /\ res' = [status |-> 500, message |-> "Failed to process product"]
    /\ UNCHANGED <<variant, req, finalUrl, productId, scrapedData, offersPrimaryV,
                   offersSecondaryV, i, results, linkLog, linkService, redirectOk,
                   scrapeOk, attemptReturns, extractVars, sigVars, phase, auxVars>>

\* faulty variant: a detail call that failed is made once more
ApiReturns_RetryOnFailure ==
    /\ pc = "api"
    /\ \E body \in ApiBodies :
         LET r == getProductDetailsFromApi(variant, body) IN
         /\ apiOk' = r.ok
         /\ apiData' = IF r.ok THEN r.data ELSE <<>>
         /\ productData' = IF r.ok THEN Spread(productData, r.data) ELSE productData
         /\ IF ~r.ok /\ net.api < 2
                THEN /\ events' = events \o <<Finished("api", r),
                                               Started("api", "", Credentials(req))>>
                     /\ net' = [net EXCEPT !.api = @ + 1]
                     /\ pc' = "api"
                ELSE /\ events' = events \o <<Finished("api", r),
                                               Started("scrape", "", <<>>)>>
                     /\ net' = [net EXCEPT !.scrape = @ + 1]
                     /\ pc' = "scrape"
    /\ UNCHANGED <<variant, req, finalUrl, productId, scrapedData, offersPrimaryV,
                   offersSecondaryV, i, results, linkLog, res, linkService, redirectOk,
                   scrapeOk, attemptReturns, extractVars, sigVars, phase, auxVars>>

\* getProductDetailsFromApi returns or throws; await getProductDetails(productId)
ApiReturns ==
    /\ pc = "api"
    /\ \E body \in ApiBodies :
         LET r == getProductDetailsFromApi(variant, body) IN
         /\ apiOk' = r.ok
         /\ apiData' = IF r.ok THEN r.data ELSE <<>>
         /\ productData' = IF r.ok THEN Spread(productData, r.data) ELSE productData
         /\ events' = events \o <<Finished("api", r), Started("scrape", "", <<>>)>>
    /\ net' = [net EXCEPT !.scrape = @ + 1]
    /\ pc' = "scrape"
    /\ UNCHANGED <<variant, req, finalUrl, productId, scrapedData, offersPrimaryV,
                   offersSecondaryV, i, results, linkLog, res, linkService, redirectOk,
                   scrapeOk, attemptReturns, extractVars, sigVars, phase, auxVars>>

\* getProductDetails returns; the merge; generateAllOffers starts: await generateAffiliateLink
\* of the first primary offer
ScrapeReturns ==
    /\ pc = "scrape"
    /\ \E page \in ScrapePages :
         LET scraped == getProductDetails(variant, page) IN
         /\ scrapedData' = scraped
         /\ scrapeOk' = (page.kind # "throw")
         /\ productData' = Backfill(variant, productData, scraped)
    /\ offersPrimaryV' = offersPrimary(variant, productId)
    /\ offersSecondaryV' = offersSecondary(variant, productId)
    /\ i' = 1
    /\ results' = <<>>
    /\ linkLog' = Append(linkLog, offersPrimaryV'[1].url)
    /\ net' = [net EXCEPT !.link = @ + 1]
    /\ events' = events \o <<Finished("scrape", scrapedData'),
                              Started("link", offersPrimaryV'[1].url, Credentials(req))>>
    /\ pc' = "primary"
    /\ UNCHANGED <<variant, req, finalUrl, productId, apiOk, apiData, res, linkService,
                   redirectOk, attemptReturns, extractVars, sigVars, phase, auxVars>>

\* faulty variant of the loop body: an offer without a link is not pushed
PushAndContinue_SkipFailed(link) ==
    LET pushed == IF Falsy(link) THEN results
                  ELSE Append(results, OfferItem(offersPrimaryV[i], link)) IN
    /\ results' = pushed
    /\ IF i < Len(offersPrimaryV)
           THEN /\ i' = i + 1
                /\ linkLog' = Append(linkLog, offersPrimaryV[i + 1].url)
                /\ net' = [net EXCEPT !.link = @ + 1]
                /\ events' = events \o <<Finished("link", Returned(link)),
                                          Started("link", offersPrimaryV[i + 1].url,
                                                  Credentials(req))>>
                /\ pc' = "primary"
                /\ res' = res
           ELSE /\ res' = [status |-> 200,
                           body |-> ProductResponse(productId, productData, pushed)]
                /\ pc' = "done"
                /\ events' = Append(events, Finished("link", Returned(link)))
                /\ UNCHANGED <<i, linkLog, net>>

\* faulty variant of the loop: the call for the next offer is started before the result of
\* the current one is awaited
PushAndContinue_Overlapping(link) ==
    LET pushed == Append(results, OfferItem(offersPrimaryV[i], link)) IN
    /\ results' = pushed
    /\ IF i < Len(offersPrimaryV)
           THEN /\ i' = i + 1
                /\ linkLog' = Append(linkLog, offersPrimaryV[i + 1].url)
                /\ net' = [net EXCEPT !.link = @ + 1]
                /\ events' = events \o <<Started("link", offersPrimaryV[i + 1].url,
                                                  Credentials(req)),
                                          Finished("link", Returned(link))>>
                /\ pc' = "primary"
                /\ res' = res
           ELSE /\ res' = [status |-> 200,
                           body |-> ProductResponse(productId, productData, pushed)]
                /\ pc' = "done"
                /\ events' = Append(events, Finished("link", Returned(link)))
                /\ UNCHANGED <<i, linkLog, net>>

\* results.push(...) for offer i with the link obtained, then the next loop iteration up to
\* its await, or after the last one return results; ...; return res.json(response)
PushAndContinue(link) ==
    LET pushed == Append(results, OfferItem(offersPrimaryV[i], link)) IN
    /\ results' = pushed
    /\ IF i < Len(offersPrimaryV)
           THEN /\ i' = i + 1
                /\ linkLog' = Append(linkLog, offersPrimaryV[i + 1].url)
                /\ net' = [net EXCEPT !.link = @ + 1]
                /\ events' = events \o <<Finished("link", Returned(link)),
                                          Started("link", offersPrimaryV[i + 1].url,
                                                  Credentials(req))>>
                /\ pc' = "primary"
                /\ res' = res
           ELSE /\ res' = [status |-> 200,
                           body |-> ProductResponse(productId, productData, pushed)]
                /\ pc' = "done"
                /\ events' = Append(events, Finished("link", Returned(link)))
                /\ UNCHANGED <<i, linkLog, net>>

\* faulty variant of the loop body: the wrapper is never tried
PrimaryReturns_NoRetry ==
    /\ pc = "primary"
    /\ \E link \in {generateAffiliateLink(offersPrimaryV[i].url, o[1], o[2]) :
                        o \in LinkOutcomes(linkService, "primary")} :
         /\ attemptReturns' = <<link>>
         /\ PushAndContinue(link)
    /\ UNCHANGED <<variant, req, finalUrl, productId, apiOk, apiData, scrapedData,
                   productData, offersPrimaryV, offersSecondaryV, linkService,
                   redirectOk, scrapeOk, extractVars, sigVars, phase, auxVars>>

\* the primary generateAffiliateLink returns; if (!affiliateLink) await the secondary one
PrimaryReturns ==
    /\ pc = "primary"
    /\ \E link \in {generateAffiliateLink(offersPrimaryV[i].url, o[1], o[2]) :
                        o \in LinkOutcomes(linkService, "primary")} :
         /\ attemptReturns' = <<link>>
         /\ IF Falsy(link)
                THEN /\ linkLog' = Append(linkLog, offersSecondaryV[i].url)
                     /\ net' = [net EXCEPT !.link = @ + 1]
                     /\ events' = events \o <<Finished("link", Returned(link)),
                                               Started("link", offersSecondaryV[i].url,
                                                       Credentials(req))>>
                     /\ pc' = "secondary"
                     /\ UNCHANGED <<i, results, res>>
                ELSE PushAndContinue(link)
    /\ UNCHANGED <<variant, req, finalUrl, productId, apiOk, apiData, scrapedData,
                   productData, offersPrimaryV, offersSecondaryV, linkService,
                   redirectOk, scrapeOk, extractVars, sigVars, phase, auxVars>>

\* faulty variant: a wrapper call that gave no link is made again until it gives one
SecondaryReturns_RetryUntilLink ==
    /\ pc = "secondary"
    /\ \E link \in {generateAffiliateLink(offersSecondaryV[i].url, o[1], o[2]) :
                        o \in LinkOutcomes(linkService, "secondary")} :
         /\ attemptReturns' = Append(attemptReturns, link)
         /\ IF Falsy(link)
                THEN /\ linkLog' = Append(linkLog, offersSecondaryV[i].url)
                     /\ net' = [net EXCEPT !.link = @ + 1]
                     /\ events' = events \o <<Finished("link", Returned(link)),
                                               Started("link", offersSecondaryV[i].url,
                                                       Credentials(req))>>
                     /\ UNCHANGED <<pc, i, results, res>>
                ELSE PushAndContinue(link)
    /\ UNCHANGED <<variant, req, finalUrl, productId, apiOk, apiData, scrapedData,
                   productData, offersPrimaryV, offersSecondaryV, linkService,
                   redirectOk, scrapeOk, extractVars, sigVars, phase, auxVars>>

\* the secondary generateAffiliateLink returns
SecondaryReturns ==
    /\ pc = "secondary"
    /\ \E link \in {generateAffiliateLink(offersSecondaryV[i].url, o[1], o[2]) :
                        o \in LinkOutcomes(linkService, "secondary")} :
         /\ attemptReturns' = Append(attemptReturns, link)
         /\ PushAndContinue(link)
    /\ UNCHANGED <<variant, req, finalUrl, productId, apiOk, apiData, scrapedData,
                   productData, offersPrimaryV, offersSecondaryV, linkService,
                   redirectOk, scrapeOk, extractVars, sigVars, phase, auxVars>>

Init ==
    /\ variant \in Variants
    /\ req \in Requests
    /\ pc = "received"
    /\ finalUrl = <<>>
    /\ productId = <<>>
    /\ apiOk = FALSE
    /\ apiData = <<>>
    /\ scrapedData = <<>>
    /\ productData = <<>>
    /\ offersPrimaryV = <<>>
    /\ offersSecondaryV = <<>>
    /\ i = 0
    /\ results = <<>>
    /\ net = NoCalls
    /\ linkLog = <<>>
    /\ res = NotSent
    /\ linkService \in {"up", "down", "primaryDown"}
    /\ redirectOk = FALSE
    /\ scrapeOk = FALSE
    /\ attemptReturns = <<>>
    /\ events = <<>>
    /\ AuxIdle
    /\ text = <<>>
    /\ extracted = <<>>
    /\ params = <<>>
    /\ secret = <<>>
    /\ sig = <<>>
    /\ phase = "idle"

Next ==
    \/ Validate
    \/ ResolveReturns
    \/ ApiReturns
    \/ ScrapeReturns
    \/ PrimaryReturns
    \/ SecondaryReturns

Spec == Init /\ [][Next]_vars

\* a step of the handler, seen from outside: it was suspended at an await (or had just been
\* called), and it goes on to its next await or to its end, having started at most one call
Resume ==
    /\ pc \in {"received", "resolve", "api", "scrape", "primary", "secondary"}
    /\ pc' \in {"resolve", "api", "scrape", "primary", "secondary", "done"}
    /\ net' \in {net} \cup {[net EXCEPT ![k] = @ + 1] : k \in DOMAIN net}

\* every upstream call eventually returns or fails: fetch settles, so a handler suspended at
\* an await is eventually resumed.  Every step of Next is a Resume step that changes pc or
\* net, and one is possible exactly while pc is not "done", so this is weak fairness of Next.
SpecLive == Spec /\ WF_<<pc, net>>(Resume)

(***************************************************************************)
(* generateAllOffers on its own: the handler at the moment it has called   *)
(* generateAllOffers(productId, ...) and awaits the first primary link,    *)
(* with a link endpoint that is free to answer each call differently.      *)
(***************************************************************************)
InitOffers ==
    /\ variant \in Variants
    /\ req = [url |-> UrlProduct, appKey |-> "512345", appSecret |-> "s3cr3t",
              trackingId |-> "default"]
    /\ finalUrl \in {UrlProduct, LandingProduct}
    /\ productId = extractProductId(variant, finalUrl)
    /\ apiOk = FALSE
    /\ apiData = <<>>
    /\ scrapedData = getProductDetails(variant, [kind |-> "throw"])
    /\ productData = Backfill(variant, DefaultProductData(variant), scrapedData)
    /\ offersPrimaryV = offersPrimary(variant, productId)
    /\ offersSecondaryV = offersSecondary(variant, productId)
    /\ i = 1
    /\ results = <<>>
    /\ net = [redirect |-> 1, api |-> 1, scrape |-> 1, link |-> 1]
    /\ linkLog = <<offersPrimaryV[1].url>>
    /\ res = NotSent
    /\ linkService = "free"
    /\ redirectOk = TRUE
    /\ scrapeOk = FALSE
    /\ attemptReturns = <<>>
    /\ events = <<Started("redirect", "", <<>>), Finished("redirect", finalUrl),
                  Started("api", "", Credentials(req)),
                  Finished("api", getProductDetailsFromApi(variant, [kind |-> "throw"])),
                  Started("scrape", "", <<>>), Finished("scrape", scrapedData),
                  Started("link", offersPrimaryV[1].url, Credentials(req))>>
    /\ AuxIdle
    /\ pc = "primary"
    /\ text = <<>>
    /\ extracted = <<>>
    /\ params = <<>>
    /\ secret = <<>>
    /\ sig = <<>>
    /\ phase = "idle"

NextOffers ==
    \/ PrimaryReturns
    \/ SecondaryReturns

SpecOffers == InitOffers /\ [][NextOffers]_vars

(***************************************************************************)
(* extractProductId on its own, over texts put together from a head and up *)
(* to MaxParts parts.                                                      *)
(***************************************************************************)
\* how a text starts: with nothing, with a product-site URL, with words and a URL of another site
TextHeads ==
    { <<>>,
      <<"h","t","t","p",":","/","/","a","l","i","e","x","p","r","e","s","s",".","c","o","m">>,
      <<"s","e","e"," ","h","t","t","p",":","/","/","x",".","c","o">> }

\* the pieces that follow: the shapes the patterns look for, separators that end a URL, a bare
\* digit run, a second URL
TextParts ==
    { <<"/","i","t","e","m","/","1","1",".","h","t","m","l">>,
      <<"/","i","t","e","m","/","2","2">>,
      <<"?","p","r","o","d","u","c","t","I","d","s","=","3","3">>,
      <<"&","p","r","o","d","u","c","t","I","d","=","4","4">>,
      <<"/","p","r","o","d","u","c","t","/","5","5">>,
      <<"/","i","/","6","6">>,
      <<"/","a",".","h","t","m","l","?">>,
      <<"z","p","r","o","d","u","c","t","I","d","=","7","7">>,
      <<" ">>,
      <<"#">>,
      <<"1","2","3","4","5","6","7","8","9","0">>,
      <<" ","h","t","t","p","s",":","/","/","a","l","i","x",".","l","i","v","e">> }

RECURSIVE Flatten(_)
Flatten(parts) == IF parts = <<>> THEN <<>> ELSE Head(parts) \o Flatten(Tail(parts))

Texts ==
    { h \o Flatten(parts) :
        h \in TextHeads, parts \in UNION {[1..n -> TextParts] : n \in 0..MaxParts} }

\* no request is being handled
NoRequest ==
    /\ req = <<>>
    /\ pc = "idle"
    /\ finalUrl = <<>>
    /\ productId = <<>>
    /\ apiOk = FALSE
    /\ apiData = <<>>
    /\ scrapedData = <<>>
    /\ productData = <<>>
    /\ offersPrimaryV = <<>>
    /\ offersSecondaryV = <<>>
    /\ i = 0
    /\ results = <<>>
    /\ net = NoCalls
    /\ linkLog = <<>>
    /\ res = NotSent
    /\ linkService = "up"
    /\ redirectOk = FALSE
    /\ scrapeOk = FALSE
    /\ attemptReturns = <<>>
    /\ events = <<>>

InitExtract ==
    /\ variant \in Variants
    /\ NoRequest
    /\ AuxIdle
    /\ text \in Texts
    /\ extracted = <<>>
    /\ params = <<>>
    /\ secret = <<>>
    /\ sig = <<>>
    /\ phase = "input"

\* extracted = extractProductId(text)
ExtractCall ==
    /\ phase = "input"
    /\ extracted' = extractProductId(variant, text)
    /\ phase' = "called"
    /\ UNCHANGED <<variant, pipelineVars, text, sigVars, auxVars>>

NextExtract == ExtractCall

SpecExtract == InitExtract /\ [][NextExtract]_vars

(***************************************************************************)
(* generateApiSignature on its own, over parameter maps of up to MaxParams *)
(* entries in every insertion order.                                       *)
(***************************************************************************)
SigKeys == {<<"a">>, <<"b">>, <<"a","b">>, <<"v">>}

SigValues == {<<"1">>, <<"2">>, <<"b","1">>}

Secrets == {<<"s","3","c","r","3","t">>, <<"k">>}

\* the maps: sequences of <<key, value>> with no key twice
ParamMaps ==
    { ps \in UNION {[1..n -> SigKeys \X SigValues] : n \in 0..MaxParams} :
        \A j, k \in 1..Len(ps) : j # k => ps[j][1] # ps[k][1] }

InitSig ==
    /\ variant \in Variants
    /\ NoRequest
    /\ AuxIdle
    /\ text = <<>>
    /\ extracted = <<>>
    /\ params \in ParamMaps
    /\ secret \in Secrets
    /\ sig = <<>>
    /\ phase = "input"

\* sig = generateApiSignature(params, secret)
SignCall ==
    /\ phase = "input"
    /\ sig' = generateApiSignature(params, secret)
    /\ phase' = "called"
    /\ UNCHANGED <<variant, pipelineVars, extractVars, params, secret, auxVars>>

\* the same call once more
SignAgain ==
    /\ phase = "called"
    /\ sig' = generateApiSignature(params, secret)
    /\ phase' = "repeated"
    /\ UNCHANGED <<variant, pipelineVars, extractVars, params, secret, auxVars>>

NextSig ==
    \/ SignCall
    \/ SignAgain

SpecSig == InitSig /\ [][NextSig]_vars

(***************************************************************************)
(* The client's search history (src/unnamed/part_002): saveProduct is      *)
(* called with one product after another, each call ending before the     *)
(* next begins.  A ProductItem is kept as its productId and its id (the    *)
(* handler's productId-Date.now(), here the number of the search); the     *)
(* stored item is the list it encodes, <<>> also for an item never set.    *)
(***************************************************************************)
\* what an AsyncStorage call can do
StorageOutcomes == {"resolves", "rejects"}

\* getRecentProducts(), item being what is stored and read what getItem did
getRecentProducts(item, read) == IF read = "rejects" THEN <<>> ELSE item

\* products.findIndex((p) => p.productId === product.productId), 1-based, 0 for -1
FindIndex(products, product) ==
    LET hits == {k \in 1..Len(products) : products[k].productId = product.productId} IN
    IF hits = {} THEN 0 ELSE CHOOSE k \in hits : \A j \in hits : k <= j

\* saveProduct(product): what is stored after the call, item being what was stored before,
\* read and write what getItem and setItem did
saveProduct(item, product, read, write) ==
    LET products == getRecentProducts(item, read)
        existingIndex == FindIndex(products, product)
        spliced == IF existingIndex >= 1 THEN RemoveAt(products, existingIndex) ELSE products
        unshifted == <<product>> \o spliced
        popped == IF Len(unshifted) > HistoryLimit
                      THEN SubSeq(unshifted, 1, Len(unshifted) - 1)
                      ELSE unshifted IN
    IF write = "rejects" THEN item ELSE popped

\* the positions of the list whose product may be searched again: the newest, the one
\* after it, the oldest
ResavePositions == {k \in {1, 2, Len(stored)} : 1 <= k /\ k <= Len(stored)}

InitStore ==
    /\ MoreIdle
    /\ variant \in Variants
    /\ NoRequest
    /\ flight = <<>>
    /\ overlap = FALSE
    /\ stored = <<>>
    /\ lastSaved = [calls |-> 0, fresh |-> 0, resaves |-> 0, faults |-> 0]
    /\ call = <<>>
    /\ text = <<>>
    /\ extracted = <<>>
    /\ params = <<>>
    /\ secret = <<>>
    /\ sig = <<>>
    /\ phase = "idle"

\* await saveProduct(product), from the call to the end of its promise
SaveProduct(pid, isNew, read, write) ==
    LET product == [productId |-> pid, id |-> lastSaved.calls + 1]
        faulty == read = "rejects" \/ write = "rejects" IN
    /\ lastSaved.calls < MaxSaves
    /\ ~isNew => lastSaved.resaves < MaxResaves
    /\ faulty => lastSaved.faults < MaxFaults
    /\ stored' = saveProduct(stored, product, read, write)
    /\ lastSaved' = [calls |-> lastSaved.calls + 1,
                     fresh |-> lastSaved.fresh + (IF isNew THEN 1 ELSE 0),
                     resaves |-> lastSaved.resaves + (IF isNew THEN 0 ELSE 1),
                     faults |-> lastSaved.faults + (IF faulty THEN 1 ELSE 0),
                     product |-> product, before |-> stored,
                     read |-> read, write |-> write]
    /\ UNCHANGED <<variant, pipelineVars, extractVars, sigVars, phase, flight, overlap, call,
                   moreVars>>

\* a product not searched before
SaveNew ==
    \E read, write \in StorageOutcomes :
        SaveProduct(lastSaved.fresh + 1, TRUE, read, write)

\* a product of the list, searched again
SaveAgain ==
    \E k \in ResavePositions, read, write \in StorageOutcomes :
        SaveProduct(stored[k].productId, FALSE, read, write)

NextStore ==
    \/ SaveNew
    \/ SaveAgain

SpecStore == InitStore /\ [][NextStore]_vars

(***************************************************************************)
(* The message template of the client (src/unnamed/part_002):              *)
(* formatProductMessage, applied to templates put together from up to      *)
(* MaxTemplateParts parts.                                                 *)
(***************************************************************************)
PhTitle == <<"{","t","i","t","l","e","}">>
PhPrice == <<"{","p","r","i","c","e","}">>
PhOriginalPrice == <<"{","o","r","i","g","i","n","a","l","P","r","i","c","e","}">>
PhDiscount == <<"{","d","i","s","c","o","u","n","t","}">>
PhStoreName == <<"{","s","t","o","r","e","N","a","m","e","}">>
PhOffers == <<"{","o","f","f","e","r","s","}">>

\* the replacement text of String.prototype.replace with a string pattern: $$ stands for $,
\* $& for the match, $` and $' for the text before and after it; any other $ stands for itself
RECURSIVE GetSubstitution(_, _, _, _)
GetSubstitution(rep, matched, before, after) ==
    IF rep = <<>> THEN <<>>
    ELSE IF Head(rep) = "$" /\ Len(rep) >= 2 /\ rep[2] \in {"$", "&", "`", "'"}
        THEN (CASE rep[2] = "$" -> <<"$">>
                [] rep[2] = "&" -> matched
                [] rep[2] = "`" -> before
                [] rep[2] = "'" -> after)
             \o GetSubstitution(SubSeq(rep, 3, Len(rep)), matched, before, after)
    ELSE <<Head(rep)>> \o GetSubstitution(Tail(rep), matched, before, after)

\* faulty variant: every occurrence is replaced, the replacement taken as it is
ReplaceFirst_EveryOccurrence(s, lit, rep) == ReplaceAll(s, lit, rep)

\* s.replace(lit, rep) with lit a string: the first occurrence only
ReplaceFirst(s, lit, rep) ==
    LET S == {p \in 1..Len(s) : LitAt(s, p, lit)} IN
    IF S = {} THEN s
    ELSE LET p == MinOf(S)
             before == SubSeq(s, 1, p - 1)
             after == SubSeq(s, p + Len(lit), Len(s)) IN
         before \o GetSubstitution(rep, lit, before, after) \o after

\* product.offers.filter((o) => o.success).map((o) => `${o.name}:\n${o.link}`).join("\n\n")
RECURSIVE offersText(_)
offersText(offers) ==
    IF offers = <<>> THEN <<>>
    ELSE IF ~Head(offers).success THEN offersText(Tail(offers))
    ELSE Head(offers).name \o <<":", "\n">> \o Head(offers).link
         \o (IF \E k \in 2..Len(offers) : offers[k].success THEN <<"\n", "\n">> ELSE <<>>)
         \o offersText(Tail(offers))

formatProductMessage(product, template) ==
    ReplaceFirst(
      ReplaceFirst(
        ReplaceFirst(
          ReplaceFirst(
            ReplaceFirst(
              ReplaceFirst(template, PhTitle, product.title),
              PhPrice, product.price),
            PhOriginalPrice, product.originalPrice),
          PhDiscount, product.discount),
        PhStoreName, product.storeName),
      PhOffers, offersText(product.offers))

\* the parts of a template, and the templates
TemplateParts ==
    {PhTitle, PhPrice, PhOriginalPrice, PhDiscount, PhStoreName, PhOffers, <<" ","-"," ">>}

Templates == { Flatten(parts) : parts \in UNION {[1..n -> TemplateParts] : n \in 0..MaxTemplateParts} }

\* the products: a plain title, a title that holds placeholder text, a title that holds a
\* replacement pattern; a price with and without a currency sign; offers that succeeded or not
Offer(name, link, success) == [name |-> name, link |-> link, success |-> success]

OfferLists ==
    { <<>>,
      <<Offer(<<"A">>, <<"a">>, TRUE)>>,
      <<Offer(<<"A">>, <<"a">>, FALSE), Offer(<<"B">>, <<"b">>, TRUE)>>,
      <<Offer(<<"A">>, <<"a">>, TRUE), Offer(<<"B">>, <<"b">>, FALSE), Offer(<<"C">>, <<"c">>, TRUE)>> }

ProductItems ==
    [title : {<<"T","V">>, PhPrice, <<"T","V","$","&">>},
     price : {<<"$","5">>, <<"9">>},
     originalPrice : {<<"8">>},
     discount : {<<"1","%">>},
     storeName : {<<"S">>},
     offers : OfferLists]

formatIdle == <<variant, pipelineVars, extractVars, sigVars, phase, flight, overlap, stored,
                lastSaved, call, twin, savers, users, auth>>

InitFormat ==
    /\ variant \in Variants
    /\ NoRequest
    /\ flight = <<>>
    /\ overlap = FALSE
    /\ stored = <<>>
    /\ lastSaved = <<>>
    /\ call = <<>>
    /\ twin = <<>>
    /\ savers = <<>>
    /\ users = {}
    /\ auth = <<>>
    /\ text = <<>>
    /\ extracted = <<>>
    /\ params = <<>>
    /\ secret = <<>>
    /\ sig = <<>>
    /\ phase = "idle"
    /\ \E product \in ProductItems, template \in Templates :
         formatted = [product |-> product, template |-> template, called |-> FALSE,
                      result |-> <<>>]

\* formatProductMessage(product, template)
FormatCall ==
    /\ ~formatted.called
    /\ formatted' = [formatted EXCEPT
                       !.called = TRUE,
                       !.result = formatProductMessage(formatted.product, formatted.template)]
    /\ UNCHANGED formatIdle

NextFormat == FormatCall

SpecFormat == InitFormat /\ [][NextFormat]_vars

(***************************************************************************)
(* Two saveProduct calls at once (src/unnamed/part_002, called by          *)
(* getOffers of HomeScreen.tsx and refreshOffer of part_005).  saveProduct *)
(* is an async function with two awaits: the read of getRecentProducts and *)
(* the write of setItem.  Each call has its own products array; the        *)
(* client runs one call at a time, from one await to the next.  savers[s]  *)
(* is call s: its product, the await it is suspended at, and its array.    *)
(* lastSaved.before keeps the list stored before either call.              *)
(***************************************************************************)
\* lengths of the list stored before the two calls: empty, short, one below the limit, full
HistorySizes == {0, 1, 2, HistoryLimit - 1, HistoryLimit}

\* the history of n earlier searches, the newest first
HistoryOf(n) == [k \in 1..n |-> [productId |-> k, id |-> k]]

\* the productIds of the two calls: one of the list (when it is long enough) or a new one
SaverProductIds == [1..2 -> {1, 2, HistoryLimit + 1, HistoryLimit + 2}]

Savers == {1, 2}

saversIdle == <<variant, pipelineVars, extractVars, sigVars, phase, flight, call, twin,
                formatted, users, auth>>

InitSavers ==
    /\ variant \in Variants
    /\ NoRequest
    /\ flight = <<>>
    /\ overlap = FALSE
    /\ call = <<>>
    /\ twin = <<>>
    /\ formatted = <<>>
    /\ users = {}
    /\ auth = <<>>
    /\ text = <<>>
    /\ extracted = <<>>
    /\ params = <<>>
    /\ secret = <<>>
    /\ sig = <<>>
    /\ phase = "idle"
    /\ \E n \in HistorySizes, pids \in SaverProductIds :
         /\ pids[1] # pids[2]
         /\ stored = HistoryOf(n)
         /\ lastSaved = [before |-> HistoryOf(n)]
         /\ savers = [s \in Savers |->
                         [product |-> [productId |-> pids[s], id |-> 100 + s],
                          pc |-> "idle", products |-> <<>>]]

\* saveProduct(product) is called: it runs up to await getRecentProducts(), whose getItem
\* is now pending
SaveCalled(s) ==
    /\ savers[s].pc = "idle"
    /\ savers' = [savers EXCEPT ![s].pc = "getItem"]
    /\ overlap' = (overlap \/ \E o \in Savers \ {s} : savers[o].pc \in {"getItem", "setItem"})
    /\ UNCHANGED <<stored, lastSaved, saversIdle>>

\* getItem resolves with what is stored now: the call removes the earlier entry, puts the
\* product first, drops the entry over the limit and calls setItem, which is now pending
GetItemResolved(s) ==
    /\ savers[s].pc = "getItem"
    /\ savers' = [savers EXCEPT
                    ![s].pc = "setItem",
                    ![s].products = saveProduct(stored, savers[s].product,
                                                "resolves", "resolves")]
    /\ UNCHANGED <<stored, overlap, lastSaved, saversIdle>>

\* setItem resolves: the array of the call is what is stored, and the call ends
SetItemResolved(s) ==
    /\ savers[s].pc = "setItem"
    /\ stored' = savers[s].products
    /\ savers' = [savers EXCEPT ![s].pc = "done"]
    /\ UNCHANGED <<overlap, lastSaved, saversIdle>>

NextSavers ==
    \E s \in Savers :
        \/ SaveCalled(s)
        \/ GetItemResolved(s)
        \/ SetItemResolved(s)

SpecSavers == InitSavers /\ [][NextSavers]_vars

(***************************************************************************)
(* Registration and login (src/server/auth.ts) over the users table of     *)
(* src/shared/schema.ts.  users is the table; auth[r] is request r: its    *)
(* kind and body, the await its handler is suspended at, the attempts and  *)
(* the id of generateUniqueUserId, its response, and, for the properties,  *)
(* what its email lookup found, the rows it inserted and the table as it   *)
(* was when the request was answered.  A handler runs                      *)
(* from one await to the next; every await is a statement sent to the      *)
(* database, which answers it from the table as it is when it answers.     *)
(* The database answers every statement; the only statement it rejects is  *)
(* an insert that breaks a constraint of the table.                        *)
(***************************************************************************)
\* const maxAttempts = 100
maxAttempts == 100

\* the ids generateUserId can give here (of the 10^6 six-digit strings)
UserIds == {"000001", "000002"}

\* email.toLowerCase(), for the letters the emails here are written with
LowerChar(c) == IF c = "A" THEN "a" ELSE IF c = "B" THEN "b" ELSE IF c = "C" THEN "c" ELSE c

ToLowerCase(e) == [k \in 1..Len(e) |-> LowerChar(e[k])]

\* crypto.createHash("sha256").update(password).digest("hex"): a value that is not the
\* password and differs for different passwords
hashPassword(password) == [sha256 |-> password]

\* z.string().email(): something, an @ and something after it
IsEmail(e) == \E k \in 2..(Len(e) - 1) : e[k] = "@" /\ \A j \in 1..Len(e) : j # k => e[j] # "@"

\* insertUserSchema.safeParse(req.body).success
ValidRegistration(body) ==
    /\ Len(body.firstName) >= 1
    /\ Len(body.lastName) >= 1
    /\ IsEmail(body.email)
    /\ Len(body.birthDate) >= 1
    /\ Len(body.password) >= 8

\* loginSchema.safeParse(req.body).success
ValidLogin(body) ==
    /\ Len(body.emailOrUsername) >= 1
    /\ Len(body.password) >= 1

\* db.select().from(users).where(eq(users.email, email)).limit(1)
SelectByEmail(table, email) == {u \in table : u.email = email}

\* faulty variant of isUserIdUnique: every id passes
isUserIdUnique_Always(table, id) == TRUE

\* isUserIdUnique(id): no row has the id
isUserIdUnique(table, id) == {u \in table : u.id = id} = {}

\* the constraints of the table: id is the primary key, email is unique
InsertRejected(table, row) == \E u \in table : u.id = row.id \/ u.email = row.email

\* faulty variant of the user object of a response: the row as stored
PublicUser_WholeRow(u) == u

\* user: { id, firstName, lastName, email } of the 201 and the 200 responses
PublicUser(u) ==
    [id |-> u.id, firstName |-> u.firstName, lastName |-> u.lastName, email |-> u.email]

\* the row the register handler inserts
NewRow(body, userId) ==
    [id |-> userId, firstName |-> body.firstName, lastName |-> body.lastName,
     email |-> ToLowerCase(body.email), birthDate |-> body.birthDate,
     password |-> hashPassword(body.password)]

\* res.status(status).json({ message })
Answer(status, message) == [status |-> status, message |-> message]

\* res.status(status).json({ message, user })
AnswerWithUser(status, message, u) ==
    [status |-> status, message |-> message, user |-> PublicUser(u)]

Unanswered == [status |-> 0]

LitPassword == <<"p","a","s","s","w","o","r","d">>

RegisterBodies ==
    { [firstName |-> <<"A">>, lastName |-> <<"B">>, email |-> e, birthDate |-> <<"2","0","0","0">>,
       password |-> pw] :
         e \in {<<"A","@","x">>, <<"a","@","x">>, <<"b","@","x">>},
         pw \in {LitPassword} }
    \cup { [firstName |-> <<"A">>, lastName |-> <<"B">>, email |-> <<"b","x">>,
            birthDate |-> <<"2","0","0","0">>, password |-> LitPassword],
           [firstName |-> <<"A">>, lastName |-> <<"B">>, email |-> <<"b","@","x">>,
            birthDate |-> <<"2","0","0","0">>, password |-> <<"p","w">>] }

LoginBodies ==
    [emailOrUsername : {<<"A","@","x">>, <<"b","@","x">>}, password : {LitPassword, <<"p","w">>}]
    \cup {[emailOrUsername |-> <<>>, password |-> LitPassword]}

\* what the table can hold before the requests: nothing, one row, or a row for every id
\* generateUserId gives here
EarlierTables ==
    LET one == NewRow([firstName |-> <<"A">>, lastName |-> <<"B">>, email |-> <<"a","@","x">>,
                       birthDate |-> <<"2","0","0","0">>, password |-> LitPassword], "000001")
        other == NewRow([firstName |-> <<"C">>, lastName |-> <<"D">>, email |-> <<"c","@","x">>,
                         birthDate |-> <<"2","0","0","0">>, password |-> LitPassword], "000002") IN
    { {}, {one}, {one, other} }

AuthRequests == {1, 2}

authIdle == <<variant, pipelineVars, extractVars, sigVars, phase, flight, overlap, stored,
              lastSaved, call, twin, formatted, savers>>

InitAuth ==
    /\ variant \in Variants
    /\ NoRequest
    /\ flight = <<>>
    /\ overlap = FALSE
    /\ stored = <<>>
    /\ lastSaved = <<>>
    /\ call = <<>>
    /\ twin = <<>>
    /\ formatted = <<>>
    /\ savers = <<>>
    /\ text = <<>>
    /\ extracted = <<>>
    /\ params = <<>>
    /\ secret = <<>>
    /\ sig = <<>>
    /\ phase = "idle"
    /\ users \in EarlierTables
    /\ \E first \in {b \in RegisterBodies : ValidRegistration(b) /\ b.email[1] # "a"},
          second \in RegisterBodies \cup LoginBodies :
         auth = [r \in AuthRequests |->
                    [kind |-> IF r = 1 \/ second \in RegisterBodies THEN "register" ELSE "login",
                     body |-> IF r = 1 THEN first ELSE second,
                     pc |-> "arriving", attempts |-> 0, userId |-> "",
                     found |-> "unknown", added |-> {}, table |-> {},
                     res |-> Unanswered]]

\* the handler answers and ends
Responds(r, response) ==
    auth' = [auth EXCEPT ![r].pc = "done", ![r].table = users, ![r].res = response]

\* POST /api/auth/register arrives: validation, then the select by email
RegisterArrives(r) ==
    /\ auth[r].kind = "register"
    /\ auth[r].pc = "arriving"
    /\ IF ~ValidRegistration(auth[r].body)
           THEN Responds(r, Answer(400, "<validation message>"))
           ELSE auth' = [auth EXCEPT ![r].pc = "emailSelect"]
    /\ UNCHANGED <<users, authIdle>>

\* the select by email answers: 409, or generateUniqueUserId starts and sends its first
\* select by id
EmailSelectAnswers(r) ==
    /\ auth[r].kind = "register"
    /\ auth[r].pc = "emailSelect"
    /\ IF SelectByEmail(users, ToLowerCase(auth[r].body.email)) # {}
           THEN auth' = [auth EXCEPT ![r].pc = "done", ![r].found = "taken",
                                     ![r].table = users,
                                     ![r].res = Answer(409, "Email already exists")]
           ELSE auth' = [auth EXCEPT ![r].pc = "idSelect", ![r].found = "free"]
    /\ UNCHANGED <<users, authIdle>>

\* a select of isUserIdUnique answers for the id generateUserId gave: the id is returned
\* and the insert sent, or the loop goes on, or after maxAttempts ids it throws and the
\* handler answers 500
IdSelectAnswers(r, id) ==
    /\ auth[r].kind = "register"
    /\ auth[r].pc = "idSelect"
    /\ IF isUserIdUnique(users, id)
           THEN auth' = [auth EXCEPT ![r].pc = "insert", ![r].userId = id]
           ELSE IF auth[r].attempts + 1 < maxAttempts
                    THEN auth' = [auth EXCEPT ![r].attempts = @ + 1]
                    ELSE auth' = [auth EXCEPT ![r].attempts = @ + 1, ![r].pc = "done",
                                    ![r].table = users,
                                    ![r].res = Answer(500, "Internal server error")]
    /\ UNCHANGED <<users, authIdle>>

\* the insert answers: the new row and 201, or the table rejects it and the handler
\* answers 500
InsertAnswers(r) ==
    /\ auth[r].kind = "register"
    /\ auth[r].pc = "insert"
    /\ IF InsertRejected(users, NewRow(auth[r].body, auth[r].userId))
           THEN /\ Responds(r, Answer(500, "Internal server error"))
                /\ users' = users
           ELSE /\ users' = users \cup {NewRow(auth[r].body, auth[r].userId)}
                /\ auth' = [auth EXCEPT
                              ![r].pc = "done",
                              ![r].added = {NewRow(auth[r].body, auth[r].userId)},
                              ![r].table = users,
                              ![r].res = AnswerWithUser(201, "User created successfully",
                                                        NewRow(auth[r].body, auth[r].userId))]
    /\ UNCHANGED authIdle

\* POST /api/auth/login arrives: validation, then the select by email
LoginArrives(r) ==
    /\ auth[r].kind = "login"
    /\ auth[r].pc = "arriving"
    /\ IF ~ValidLogin(auth[r].body)
           THEN Responds(r, Answer(400, "<validation message>"))
           ELSE auth' = [auth EXCEPT ![r].pc = "loginSelect"]
    /\ UNCHANGED <<users, authIdle>>

\* what the login handler answers for the rows its select gave
LoginAnswer(rows, body) ==
    IF rows = {} THEN Answer(404, "User not found")
    ELSE LET user == CHOOSE u \in rows : TRUE IN
         IF user.password # hashPassword(body.password)
             THEN Answer(401, "Invalid password")
             ELSE AnswerWithUser(200, "Login successful", user)

\* the select of the login handler answers
LoginSelectAnswers(r) ==
    /\ auth[r].kind = "login"
    /\ auth[r].pc = "loginSelect"
    /\ auth' = [auth EXCEPT
                  ![r].pc = "done",
                  ![r].table = users,
                  ![r].found = IF SelectByEmail(users, ToLowerCase(auth[r].body.emailOrUsername)) = {}
                                   THEN "free" ELSE "taken",
                  ![r].res = LoginAnswer(
                                 SelectByEmail(users, ToLowerCase(auth[r].body.emailOrUsername)),
                                 auth[r].body)]
    /\ UNCHANGED <<users, authIdle>>

NextAuth ==
    \E r \in AuthRequests :
        \/ RegisterArrives(r)
        \/ EmailSelectAnswers(r)
        \/ \E id \in UserIds : IdSelectAnswers(r, id)
        \/ InsertAnswers(r)
        \/ LoginArrives(r)
        \/ LoginSelectAnswers(r)

SpecAuth == InitAuth /\ [][NextAuth]_vars

(***************************************************************************)
(* Two requests in one process.  Each call of the handler has its own      *)
(* locals; the process runs one handler at a time, from one await to the   *)
(* next, and at an await it may go on with the other handler.  The state   *)
(* variables of the handler are the locals of the running one; flight      *)
(* keeps the locals of the suspended one.  The earlier request (1) has     *)
(* reached generateAllOffers when the later one (2) arrives.               *)
(***************************************************************************)
\* the locals of the running handler
Locals ==
    [req |-> req, pc |-> pc, finalUrl |-> finalUrl, productId |-> productId,
     apiOk |-> apiOk, apiData |-> apiData, scrapedData |-> scrapedData,
     productData |-> productData, offersPrimaryV |-> offersPrimaryV,
     offersSecondaryV |-> offersSecondaryV, i |-> i, results |-> results, net |-> net,
     linkLog |-> linkLog, res |-> res, linkService |-> linkService,
     redirectOk |-> redirectOk, scrapeOk |-> scrapeOk, attemptReturns |-> attemptReturns,
     events |-> events]

\* req.body of the earlier and of the later request: different credentials
EarlierRequest ==
    [url |-> UrlProduct, appKey |-> "512345", appSecret |-> "s3cr3t", trackingId |-> "default"]

LaterRequests ==
    {[url |-> u, appKey |-> "598765", appSecret |-> "0th3r", trackingId |-> "second"] :
        u \in {UrlProduct, UrlShort}}

\* the locals of the earlier handler, suspended at its first generateAffiliateLink call
AtFirstOffer(v, body, service) ==
    LET pid == extractProductId(v, body["url"])
        scraped == getProductDetails(v, [kind |-> "throw"])
        primaries == offersPrimary(v, pid) IN
    [req |-> body, pc |-> "primary", finalUrl |-> body["url"], productId |-> pid,
     apiOk |-> FALSE, apiData |-> <<>>, scrapedData |-> scraped,
     productData |-> Backfill(v, DefaultProductData(v), scraped),
     offersPrimaryV |-> primaries, offersSecondaryV |-> offersSecondary(v, pid),
     i |-> 1, results |-> <<>>,
     net |-> [redirect |-> 1, api |-> 1, scrape |-> 1, link |-> 1],
     linkLog |-> <<primaries[1].url>>, res |-> NotSent, linkService |-> service,
     redirectOk |-> TRUE, scrapeOk |-> FALSE, attemptReturns |-> <<>>,
     events |-> <<Started("redirect", "", <<>>), Finished("redirect", body["url"]),
                  Started("api", "", Credentials(body)),
                  Finished("api", getProductDetailsFromApi(v, [kind |-> "throw"])),
                  Started("scrape", "", <<>>), Finished("scrape", scraped),
                  Started("link", primaries[1].url, Credentials(body))>>]

\* a handler suspended at one of these is waiting for an upstream call
Awaiting == {"resolve", "api", "scrape", "primary", "secondary"}

InitPair ==
    /\ MoreIdle
    /\ variant \in Variants
    /\ req \in LaterRequests
    /\ pc = "received"
    /\ finalUrl = <<>>
    /\ productId = <<>>
    /\ apiOk = FALSE
    /\ apiData = <<>>
    /\ scrapedData = <<>>
    /\ productData = <<>>
    /\ offersPrimaryV = <<>>
    /\ offersSecondaryV = <<>>
    /\ i = 0
    /\ results = <<>>
    /\ net = NoCalls
    /\ linkLog = <<>>
    /\ res = NotSent
    /\ linkService \in {"up", "primaryDown"}
    /\ redirectOk = FALSE
    /\ scrapeOk = FALSE
    /\ attemptReturns = <<>>
    /\ events = <<>>
    /\ flight \in {[running |-> 2, suspended |-> AtFirstOffer(variant, EarlierRequest, s)] :
                      s \in {"up", "down"}}
    /\ overlap = FALSE
    /\ stored = <<>>
    /\ lastSaved = <<>>
    /\ call = <<>>
    /\ text = <<>>
    /\ extracted = <<>>
    /\ params = <<>>
    /\ secret = <<>>
    /\ sig = <<>>
    /\ phase = "idle"

\* the running handler is at an await (or has returned) and the call the other one waits
\* for has completed: the process goes on with the other one
Switch ==
    /\ flight # <<>>
    /\ pc # "received"
    /\ flight.suspended.pc # "done"
    /\ flight' = [running |-> 3 - flight.running, suspended |-> Locals]
    /\ overlap' = (overlap \/ (pc \in Awaiting /\ flight.suspended.pc \in Awaiting))
    /\ req' = flight.suspended.req
    /\ pc' = flight.suspended.pc
    /\ finalUrl' = flight.suspended.finalUrl
    /\ productId' = flight.suspended.productId
    /\ apiOk' = flight.suspended.apiOk
    /\ apiData' = flight.suspended.apiData
    /\ scrapedData' = flight.suspended.scrapedData
    /\ productData' = flight.suspended.productData
    /\ offersPrimaryV' = flight.suspended.offersPrimaryV
    /\ offersSecondaryV' = flight.suspended.offersSecondaryV
    /\ i' = flight.suspended.i
    /\ results' = flight.suspended.results
    /\ net' = flight.suspended.net
    /\ linkLog' = flight.suspended.linkLog
    /\ res' = flight.suspended.res
    /\ linkService' = flight.suspended.linkService
    /\ redirectOk' = flight.suspended.redirectOk
    /\ scrapeOk' = flight.suspended.scrapeOk
    /\ attemptReturns' = flight.suspended.attemptReturns
    /\ events' = flight.suspended.events
    /\ UNCHANGED <<variant, extractVars, sigVars, phase, stored, lastSaved, call, moreVars>>

NextPair ==
    \/ Validate
    \/ ResolveReturns
    \/ ApiReturns
    \/ ScrapeReturns
    \/ PrimaryReturns
    \/ SecondaryReturns
    \/ Switch

SpecPair == InitPair /\ [][NextPair]_vars

\* generateAllOffers run through in one go: links are the results of its generateAffiliateLink
\* calls in call order, primaries the offers from offer k on
RECURSIVE OffersFrom(_, _, _)
OffersFrom(primaries, k, links) ==
    IF k > Len(primaries) THEN <<>>
    ELSE LET retried == Falsy(links[1])
             link == IF retried THEN links[2] ELSE links[1]
             rest == SubSeq(links, IF retried THEN 3 ELSE 2, Len(links)) IN
         <<OfferItem(primaries[k], link)>> \o OffersFrom(primaries, k + 1, rest)

\* the handler run through in one go, with nothing else in the process: the response to
\* body when its awaited calls return returns[1], returns[2], ... in call order
RunAlone(v, body, returns) ==
    IF FieldFalsy(body, "url")
        THEN [status |-> 400, message |-> "URL is required"]
    ELSE IF FieldFalsy(body, "appKey") \/ FieldFalsy(body, "appSecret")
            \/ FieldFalsy(body, "trackingId")
        THEN [status |-> 400, message |-> "API credentials are required"]
    ELSE IF ~IsString(body["url"])
        THEN HandlerCatch(TypeError("url.includes is not a function"))
    ELSE IF ~HasDomain(body["url"])
        THEN [status |-> 400, message |-> "Please provide a valid AliExpress URL"]
    ELSE LET pid == OrElseSeq(extractProductId(v, returns[1]),
                              extractProductId(v, body["url"])) IN
         IF pid = <<>>
             THEN [status |-> 400, message |-> "Could not extract product ID from URL"]
         ELSE LET fromApi == IF returns[2].ok
                                 THEN Spread(DefaultProductData(v), returns[2].data)
                                 ELSE DefaultProductData(v)
                  offers == OffersFrom(offersPrimary(v, pid), 1,
                                       SubSeq(returns, 4, Len(returns))) IN
              [status |-> 200,
               body |-> ProductResponse(pid, Backfill(v, fromApi, returns[3]), offers)]

(***************************************************************************)
(* One request handled by both variants, one after the other, against the  *)
(* same upstream behaviour.                                                *)
(***************************************************************************)
\* how the upstream services behave while the request is handled: where the redirect chain
\* of a URL that can be fetched ends (the fetch fails, the URL itself, a landing page), what
\* the detail endpoint answers and what the product page gives (nothing, or a full
\* description), how the link endpoint behaves
Upstreams ==
    [redirect : {<<"throw">>, <<"stay">>, LandingProduct, LandingLogin, LandingStore},
     api : {b \in ApiBodies : b.kind = "throw"
                                \/ (b.kind = "product" /\ "shop_name" \in DOMAIN b.product)},
     scrape : {pg \in ScrapePages : pg.kind = "throw" \/ pg.subject # <<>>},
     link : {"up", "down", "primaryDown"}]

\* the requests handled twice: every url, with the credentials complete or the appKey empty
TwinRequests ==
    { r \in Requests : DOMAIN r = Fields /\ r["appSecret"] # "" /\ r["trackingId"] # "" }

\* what the fetch of resolveRedirects does for the variant, which fetches CleanUrl(v, url)
RedirectUnder(v, url, upstream) ==
    IF upstream.redirect = <<"throw">> \/ ~UrlStartsAt(CleanUrl(v, url), 1) THEN <<"throw">>
    ELSE IF upstream.redirect = <<"stay">> THEN CleanUrl(v, url)
    ELSE upstream.redirect

\* what generateAffiliateLink(src, ...) returns while the link endpoint behaves as service
LinkUnder(service, attempt, src) ==
    CHOOSE link \in {generateAffiliateLink(src, o[1], o[2]) : o \in LinkOutcomes(service, attempt)} :
        TRUE

\* the generateAffiliateLink calls of generateAllOffers from offer k on, each as
\* <<source, result>>
RECURSIVE LinkCallsUnder(_, _, _, _)
LinkCallsUnder(v, pid, service, k) ==
    IF k > Len(offersPrimary(v, pid)) THEN <<>>
    ELSE LET first == LinkUnder(service, "primary", offersPrimary(v, pid)[k].url)
             second == LinkUnder(service, "secondary", offersSecondary(v, pid)[k].url) IN
         <<<<offersPrimary(v, pid)[k].url, first>>>>
         \o (IF Falsy(first) THEN <<<<offersSecondary(v, pid)[k].url, second>>>> ELSE <<>>)
         \o LinkCallsUnder(v, pid, service, k + 1)

\* the request handled by variant v, stage by stage: its response and the sources sent to
\* the link endpoint
Answered(response, calls) ==
    [res |-> response,
     sources |-> IF response.status = 200 THEN [k \in 1..Len(calls) |-> calls[k][1]] ELSE <<>>]

AfterLinks(v, body, upstream, final, calls) ==
    Answered(RunAlone(v, body,
                      <<final, getProductDetailsFromApi(v, upstream.api),
                        getProductDetails(v, upstream.scrape)>>
                      \o [k \in 1..Len(calls) |-> calls[k][2]]),
             calls)

AfterExtraction(v, body, upstream, final, pid) ==
    AfterLinks(v, body, upstream, final,
               IF pid = <<>> THEN <<>> ELSE LinkCallsUnder(v, pid, upstream.link, 1))

AfterRedirect(v, body, upstream, final) ==
    AfterExtraction(v, body, upstream, final,
                    OrElseSeq(extractProductId(v, final), extractProductId(v, body["url"])))

HandledBy(v, body, upstream) ==
    AfterRedirect(v, body, upstream,
                  resolveRedirects(v, body["url"], RedirectUnder(v, body["url"], upstream)))

OtherVariant(v) == IF v = "rich" THEN "simple" ELSE "rich"

twinIdle == <<pipelineVars, extractVars, sigVars, phase, flight, overlap, stored, lastSaved,
              call, formatted, savers, users, auth>>

InitTwin ==
    /\ variant \in Variants
    /\ NoRequest
    /\ flight = <<>>
    /\ overlap = FALSE
    /\ stored = <<>>
    /\ lastSaved = <<>>
    /\ call = <<>>
    /\ formatted = <<>>
    /\ savers = <<>>
    /\ users = {}
    /\ auth = <<>>
    /\ text = <<>>
    /\ extracted = <<>>
    /\ params = <<>>
    /\ secret = <<>>
    /\ sig = <<>>
    /\ phase = "idle"
    /\ \E body \in TwinRequests, upstream \in Upstreams :
         twin = [req |-> body, upstream |-> upstream, handled |-> 0,
                 first |-> [res |-> NotSent, sources |-> <<>>],
                 second |-> [res |-> NotSent, sources |-> <<>>]]

\* the request goes through the handler of the variant
HandleFirst ==
    /\ twin.handled = 0
    /\ twin' = [twin EXCEPT !.handled = 1,
                            !.first = HandledBy(variant, twin.req, twin.upstream)]
    /\ UNCHANGED <<variant, twinIdle>>

\* the same request goes through the handler of the other variant
HandleSecond ==
    /\ twin.handled = 1
    /\ twin' = [twin EXCEPT !.handled = 2,
                            !.second = HandledBy(OtherVariant(variant), twin.req, twin.upstream)]
    /\ UNCHANGED <<variant, twinIdle>>

NextTwin ==
    \/ HandleFirst
    \/ HandleSecond

SpecTwin == InitTwin /\ [][NextTwin]_vars

(***************************************************************************)
(* The two signed upstream calls on their own: generateAffiliateLink and   *)
(* getProductDetailsFromApi, each followed from its arguments to the       *)
(* requests it sends and to what it returns.  A request is a record of its *)
(* method and of the <<name, value>> pairs of its query string and of its  *)
(* body, as they are on the wire.                                          *)
(***************************************************************************)
\* new Date().toISOString().replace("T", " ").slice(0, 19) at two instants
Timestamps == {<<"2","0","2","6","-","0","1","-","0","1"," ","0","0",":","0","0",":","0","0">>,
               <<"2","0","2","6","-","0","1","-","0","1"," ","0","0",":","0","0",":","0","1">>}

\* the arguments of the calls: a primary offer target and a wrapper URL, a product id, and
\* the credentials of two accounts
CallSources ==
    {<<"h","t","t","p","s",":","/","/","w","w","w",".","a","l","i","e","x","p","r","e","s","s",".","c","o","m","/","i","t","e","m","/","1","1",".","h","t","m","l","?","s","o","u","r","c","e","T","y","p","e","=","6","2","0">>,
     <<"h","t","t","p","s",":","/","/","s","t","a","r",".","a","l","i","e","x","p","r","e","s","s",".","c","o","m","/","s","h","a","r","e","/","s","h","a","r","e",".","h","t","m","?","r","e","d","i","r","e","c","t","U","r","l","=","h","t","t","p","s","%","3","A","%","2","F","%","2","F","m",".","a","l","i","e","x","p","r","e","s","s",".","c","o","m","%","2","F","p","%","3","F","a","%","3","D","t","r","u","e","%","2","6","p","r","o","d","u","c","t","I","d","s","%","3","D","1","1">>}

CallProductIds == {<<"1","1">>, <<"1","0","0","5","0","0","6","1","2","3","4","5","6","7","8","9">>}

CallCredentials ==
    {<<"5","1","2","3","4","5">>, <<"5","9","8","7","6","5">>} \X {<<"s","3","c","r","3","t">>, <<"0","t","h","3","r">>} \X {<<"d","e","f","a","u","l","t">>}

SignKey == <<"s","i","g","n">>

\* const params of generateAffiliateLink
LinkParams(url, appKey, trackingId, timestamp) ==
    <<<<<<"m","e","t","h","o","d">>, <<"a","l","i","e","x","p","r","e","s","s",".","a","f","f","i","l","i","a","t","e",".","l","i","n","k",".","g","e","n","e","r","a","t","e">>>>,
      <<<<"a","p","p","_","k","e","y">>, appKey>>,
      <<<<"s","i","g","n","_","m","e","t","h","o","d">>, <<"s","h","a","2","5","6">>>>,
      <<<<"t","i","m","e","s","t","a","m","p">>, timestamp>>,
      <<<<"v">>, <<"2",".","0">>>>,
      <<<<"f","o","r","m","a","t">>, <<"j","s","o","n">>>>,
      <<<<"t","r","a","c","k","i","n","g","_","i","d">>, trackingId>>,
      <<<<"p","r","o","m","o","t","i","o","n","_","l","i","n","k","_","t","y","p","e">>, <<"0">>>>,
      <<<<"s","o","u","r","c","e","_","v","a","l","u","e","s">>, url>>>>

\* const params of getProductDetailsFromApi; routes.ts adds the country
DetailParams(v, pid, appKey, trackingId, timestamp) ==
    <<<<<<"m","e","t","h","o","d">>, <<"a","l","i","e","x","p","r","e","s","s",".","a","f","f","i","l","i","a","t","e",".","p","r","o","d","u","c","t","d","e","t","a","i","l",".","g","e","t">>>>,
      <<<<"a","p","p","_","k","e","y">>, appKey>>,
      <<<<"s","i","g","n","_","m","e","t","h","o","d">>, <<"s","h","a","2","5","6">>>>,
      <<<<"t","i","m","e","s","t","a","m","p">>, timestamp>>,
      <<<<"f","o","r","m","a","t">>, <<"j","s","o","n">>>>,
      <<<<"v">>, <<"2",".","0">>>>,
      <<<<"p","r","o","d","u","c","t","_","i","d","s">>, pid>>,
      <<<<"t","a","r","g","e","t","_","c","u","r","r","e","n","c","y">>, <<"U","S","D">>>>,
      <<<<"t","a","r","g","e","t","_","l","a","n","g","u","a","g","e">>, <<"E","N">>>>,
      <<<<"t","r","a","c","k","i","n","g","_","i","d">>, trackingId>>>>
    \o (IF v = "rich" THEN <<<<<<"c","o","u","n","t","r","y">>, <<"D","Z">>>>>> ELSE <<>>)

\* faulty variant: the last parameter is added to the map after the signature is computed
SignParams_ParameterAddedLate(ps, sec) ==
    <<ps[1]>> \o SubSeq(ps, 2, Len(ps) - 1)
    \o <<<<SignKey, generateApiSignature(SubSeq(ps, 1, Len(ps) - 1), sec)>>, ps[Len(ps)]>>

\* params.sign = generateApiSignature(params, appSecret)
SignParams(ps, sec) == Append(ps, <<SignKey, generateApiSignature(ps, sec)>>)

\* the characters the application/x-www-form-urlencoded serializer leaves as they are
FormSafe == Lower \cup Upper \cup Digit \cup {"*", "-", ".", "_"}

\* the percent-encoding of the other characters of the texts above
PercentEncoded(c) ==
    CASE c = " " -> <<"+">>
      [] c = "%" -> <<"%","2","5">>
      [] c = "&" -> <<"%","2","6">>
      [] c = "/" -> <<"%","2","F">>
      [] c = ":" -> <<"%","3","A">>
      [] c = "=" -> <<"%","3","D">>
      [] c = "?" -> <<"%","3","F">>

\* one name or value as URLSearchParams.prototype.toString() writes it
RECURSIVE FormEncode(_)
FormEncode(s) ==
    IF s = <<>> THEN <<>>
    ELSE IF Len(s) = 1 THEN (IF s[1] \in FormSafe THEN s ELSE PercentEncoded(s[1]))
    ELSE FormEncode(SubSeq(s, 1, Len(s) \div 2)) \o FormEncode(SubSeq(s, (Len(s) \div 2) + 1, Len(s)))

\* new URLSearchParams(params).toString(): the pairs in insertion order; the signature is
\* hexadecimal digits, which the serializer leaves as they are
FormPairs(ps) ==
    [k \in 1..Len(ps) |->
        <<ps[k][1], IF ps[k][1] = SignKey THEN ps[k][2] ELSE FormEncode(ps[k][2])>>]

\* fetch(ALIEXPRESS_API_URL, { method: "GET", headers }): no query string, no body
BareRequest == [method |-> "GET", query |-> <<>>, body |-> <<>>]

\* fetch(`${ALIEXPRESS_API_URL}?${queryString}`)
SignedGet(ps) == [method |-> "GET", query |-> FormPairs(ps), body |-> <<>>]

\* fetch(ALIEXPRESS_API_URL, { method: "POST", headers, body })
SignedPost(ps) == [method |-> "POST", query |-> <<>>, body |-> FormPairs(ps)]

callIdle == <<variant, pipelineVars, extractVars, sigVars, phase, flight, overlap, stored,
              lastSaved, moreVars>>

InitCalls ==
    /\ MoreIdle
    /\ variant \in Variants
    /\ NoRequest
    /\ flight = <<>>
    /\ overlap = FALSE
    /\ stored = <<>>
    /\ lastSaved = <<>>
    /\ text = <<>>
    /\ extracted = <<>>
    /\ params = <<>>
    /\ secret = <<>>
    /\ sig = <<>>
    /\ phase = "idle"
    /\ \E fn \in {"link", "detail"}, creds \in CallCredentials :
       \E arg \in IF fn = "link" THEN CallSources ELSE CallProductIds :
         call = [fn |-> fn, arg |-> arg, creds |-> creds, step |-> "called",
                 signed |-> <<>>, sent |-> <<>>, answers |-> <<>>, result |-> Null]

\* generateAffiliateLink up to its first await: the parameters are built and signed, then
\* the endpoint is fetched without them
LinkBareFetch ==
    /\ call.fn = "link" /\ call.step = "called"
    /\ \E timestamp \in Timestamps :
         call' = [call EXCEPT
                    !.step = "bare",
                    !.signed = SignParams(LinkParams(call.arg, call.creds[1], call.creds[3],
                                                     timestamp), call.creds[2]),
                    !.sent = Append(@, BareRequest)]
    /\ UNCHANGED callIdle

\* the first await is over: the fetch threw, which the catch turns into null, or it gave a
\* response, which the code does not read before it sends the signed request
LinkSignedFetch ==
    /\ call.fn = "link" /\ call.step = "bare"
    /\ \E bare \in BareOutcomes :
         call' = IF bare = "throw"
                     THEN [call EXCEPT !.step = "returned",
                                       !.answers = Append(@, bare),
                                       !.result = generateAffiliateLink(Str(call.arg), bare, "throw")]
                     ELSE [call EXCEPT !.step = "signed",
                                       !.answers = Append(@, bare),
                                       !.sent = Append(@, SignedGet(call.signed))]
    /\ UNCHANGED callIdle

\* the second await is over, and apiResponse.json() with it
LinkReturns ==
    /\ call.fn = "link" /\ call.step = "signed"
    /\ \E signed \in SignedOutcomes :
         call' = [call EXCEPT !.step = "returned",
                              !.answers = Append(@, signed),
                              !.result = generateAffiliateLink(Str(call.arg), "ok", signed)]
    /\ UNCHANGED callIdle

\* getProductDetailsFromApi up to its await: the parameters are built, signed and posted
DetailFetch ==
    /\ call.fn = "detail" /\ call.step = "called"
    /\ \E timestamp \in Timestamps :
         LET ps == SignParams(DetailParams(variant, call.arg, call.creds[1], call.creds[3],
                                           timestamp), call.creds[2]) IN
         call' = [call EXCEPT !.step = "signed",
                              !.signed = ps,
                              !.sent = Append(@, SignedPost(ps))]
    /\ UNCHANGED callIdle

\* prices as the detail endpoint can spell them: amounts, an amount with a currency, zero,
\* a word, the placeholder
Prices == {<<"4","0",".","0","0">>, <<"2","0",".","0","0">>, <<"6","0">>, <<"0">>, <<"U","S"," ","$","3","0",".","5">>, <<"f","r","e","e">>, LitNA}

\* answers with a product that has both prices, with and without a discount of its own
PricedBodies ==
    { [kind |-> "product", product |-> pr] :
        pr \in { [target_sale_price |-> s, target_original_price |-> o] : s, o \in Prices }
               \cup { [target_sale_price |-> s, target_original_price |-> o,
                       target_discount |-> "25%"] : s, o \in Prices } }

DetailAnswers == ApiBodies \cup PricedBodies

\* the await is over, and response.json() with it
DetailReturns ==
    /\ call.fn = "detail" /\ call.step = "signed"
    /\ \E body \in DetailAnswers :
         call' = [call EXCEPT !.step = "returned",
                              !.answers = Append(@, body),
                              !.result = getProductDetailsFromApi(variant, body)]
    /\ UNCHANGED callIdle

NextCalls ==
    \/ LinkBareFetch
    \/ LinkSignedFetch
    \/ LinkReturns
    \/ DetailFetch
    \/ DetailReturns

SpecCalls == InitCalls /\ [][NextCalls]_vars

\* the texts of a sequence put end to end
RECURSIVE Join(_)
Join(pieces) ==
    IF pieces = <<>> THEN <<>>
    ELSE IF Len(pieces) = 1 THEN pieces[1]
    ELSE Join(SubSeq(pieces, 1, Len(pieces) \div 2))
         \o Join(SubSeq(pieces, (Len(pieces) \div 2) + 1, Len(pieces)))

(***************************************************************************)
(* Properties of POST /api/product, checked under Spec.                    *)
(***************************************************************************)
\* a field of the request body is missing or empty
IsMissing(f) == f \notin DOMAIN req \/ Len(req[f]) = 0

\* the text u contains the text d
Contains(u, d) == \E p \in 1..(Len(u) - Len(d) + 1) : SubSeq(u, p, p + Len(d) - 1) = d

NoUrl == IsMissing("url")

NoCredentials == IsMissing("appKey") \/ IsMissing("appSecret") \/ IsMissing("trackingId")

NoDomain ==
    /\ ~NoUrl
    /\ IsString(req["url"])
    /\ ~Contains(req["url"], LitAliexpress)
    /\ ~Contains(req["url"], LitAlix)
    /\ ~Contains(req["url"], LitSClick)

\* C3: a request with an empty or missing url, an empty or missing appKey, appSecret or
\* trackingId, or a url that contains none of the three recognised domains is answered 400
\* with the message of the first failing check in the order url, credentials, domain, and
\* no network call of any kind is ever started for it.
C3_InvalidRequestIsRejectedBeforeAnyCall ==
    (NoUrl \/ NoCredentials \/ NoDomain) =>
        /\ net = NoCalls
        /\ linkLog = <<>>
        /\ pc \in {"received", "done"}
        /\ pc = "received" => res = NotSent
        /\ pc = "done" =>
              res = [status |-> 400,
                     message |-> IF NoUrl THEN "URL is required"
                                 ELSE IF NoCredentials THEN "API credentials are required"
                                 ELSE "Please provide a valid AliExpress URL"]

\* C3 witness: a request that fails both the credentials check and the domain check has
\* been answered with the credentials message
C3_Witness ==
    /\ pc = "done"
    /\ ~NoUrl
    /\ NoCredentials
    /\ req["url"] = UrlOtherSite
    /\ res = [status |-> 400, message |-> "API credentials are required"]
    /\ net = NoCalls

\* the handler is past extractProductId(finalUrl) || extractProductId(url)
Extracted ==
    /\ pc \notin {"idle", "received", "resolve"}
    /\ ~(NoUrl \/ NoCredentials \/ NoDomain)
    /\ IsString(req["url"])

\* C4: when a request passes validation and neither the redirect-resolved URL nor the raw
\* input yields a product id, the answer is 400 "Could not extract product ID from URL",
\* and the redirect resolution is the only network call of the request.
C4_NoProductIdIsAClientError ==
    (/\ Extracted
     /\ extractProductId(variant, finalUrl) = <<>>
     /\ extractProductId(variant, req["url"]) = <<>>) =>
        /\ pc = "done"
        /\ res = [status |-> 400, message |-> "Could not extract product ID from URL"]
        /\ net = [redirect |-> 1, api |-> 0, scrape |-> 0, link |-> 0]
        /\ linkLog = <<>>

\* C4 witness: a short link whose redirect chain ended on a page without a product id
C4_Witness ==
    /\ pc = "done"
    /\ redirectOk
    /\ req["url"] = UrlShort
    /\ finalUrl = LandingLogin
    /\ res.status = 400
    /\ net.redirect = 1

\* the fields of a ProductResponse
ResponseFields ==
    {"id", "productId", "title", "imageUrl", "price", "originalPrice", "discount",
     "storeName", "searchedAt", "offers"}
    \cup (IF variant = "rich"
             THEN {"evaluateRate", "shopUrl", "categoryName", "commissionRate", "orders",
                   "shipping_fees"}
             ELSE {})

\* C5: once a product id has been extracted the only response the request sends is a 200
\* with a complete ProductResponse, whatever the detail call and the scrape did, and until
\* then the handler is awaiting one of its upstream calls; when the detail call failed the
\* response has price "N/A", originalPrice "N/A", discount "0%", storeName "Unknown Store"
\* and the scraped title and image, the image null when the scrape failed too.
C5_MetadataFailureIsNeverAnError ==
    (Extracted /\ productId # <<>>) =>
        /\ pc # "done" => res = NotSent /\ pc \in {"api", "scrape", "primary", "secondary"}
        /\ pc = "done" =>
              /\ res.status = 200
              /\ DOMAIN res.body = ResponseFields
              /\ res.body.productId = Str(productId)
              /\ Len(res.body.offers) = 8
              /\ ~apiOk =>
                    /\ res.body.price = "N/A"
                    /\ res.body.originalPrice = "N/A"
                    /\ res.body.discount = "0%"
                    /\ res.body.storeName = "Unknown Store"
                    /\ res.body.title = scrapedData.title
                    /\ res.body.imageUrl = scrapedData.imageUrl
                    /\ ~scrapeOk => res.body.imageUrl = Null

\* C5 witness: a 200 after both the detail call and the scrape failed
C5_Witness ==
    /\ pc = "done"
    /\ res.status = 200
    /\ ~apiOk
    /\ ~scrapeOk
    /\ res.body.price = "N/A"
    /\ res.body.imageUrl = Null

\* the fields of the response that only the detail call fills
ApiOnlyFields ==
    {"price", "originalPrice", "discount", "storeName"}
    \cup (IF variant = "rich"
             THEN {"evaluateRate", "shopUrl", "categoryName", "commissionRate", "orders",
                   "shipping_fees"}
             ELSE {})

\* C7: when the detail call succeeded, price, originalPrice, discount, storeName (and in
\* routes.ts evaluateRate, shopUrl, categoryName, commissionRate, orders, shipping_fees) of
\* the response are the values the detail call gave; the title differs from the API title
\* only when that title is empty, "Unknown Product" or "Unable to extract title", and is
\* then the scraped one; the image differs from the API image only when that is absent,
\* and is then the scraped one.
C7_ScrapeOnlyFillsGaps ==
    (pc = "done" /\ res.status = 200 /\ apiOk) =>
        /\ \A f \in ApiOnlyFields : res.body[f] = apiData[f]
        /\ res.body.title # apiData.title =>
              /\ apiData.title \in {"", "Unknown Product", "Unable to extract title"}
              /\ res.body.title = scrapedData.title
        /\ res.body.imageUrl # apiData.imageUrl =>
              /\ apiData.imageUrl \in {Null, ""}
              /\ res.body.imageUrl = scrapedData.imageUrl

\* C7 witness: the detail call gave prices and a placeholder title, the scrape gave a
\* title, and the response has the API prices with the scraped title
C7_Witness ==
    /\ pc = "done"
    /\ res.status = 200
    /\ apiOk
    /\ scrapeOk
    /\ apiData.title = "Unknown Product"
    /\ res.body.title = scrapedData.title
    /\ res.body.title # apiData.title
    /\ res.body.price = apiData.price

\* C8: after the redirect resolution, productId is what extractProductId gives for the
\* resolved URL, and what it gives for the raw input only when the resolved URL gives
\* nothing; this productId is the one in the offer table and in the response; when the
\* fetch of the resolution failed, the URL used in place of the resolved one is the raw
\* input or the URL-shaped part of it, and the request goes on as long as an id is found.
C8_ResolvedUrlFirst ==
    Extracted =>
        LET fromResolved == extractProductId(variant, finalUrl)
            fromRaw == extractProductId(variant, req["url"])
            urls == UrlsFrom(req["url"], 1) IN
        /\ productId = IF fromResolved # <<>> THEN fromResolved ELSE fromRaw
        /\ pc \in {"primary", "secondary", "done"} /\ productId # <<>> =>
              offersPrimaryV = offersPrimary(variant, productId)
        /\ pc = "done" /\ productId # <<>> => res.body.productId = Str(productId)
        /\ ~redirectOk =>
              /\ finalUrl \in {req["url"]} \cup {urls[k] : k \in 1..Len(urls)}
              /\ pc = "done" /\ fromRaw # <<>> => res.status = 200

\* C8 witness: the raw input names product 11, the redirect chain ended on the page of
\* product 33, and the response is for product 33
C8_Witness ==
    /\ pc = "done"
    /\ redirectOk
    /\ extractProductId(variant, req["url"]) = <<"1", "1">>
    /\ extractProductId(variant, finalUrl) = <<"3", "3">>
    /\ res.status = 200
    /\ res.body.productId = "33"

\* res carries a complete ProductResponse with status 200
IsProductResponse(r) ==
    /\ DOMAIN r = {"status", "body"}
    /\ r.status = 200
    /\ DOMAIN r.body = ResponseFields
    /\ r.body.productId = Str(productId)
    /\ Len(r.body.offers) = 8

\* res carries a single message with an error status
IsErrorResponse(r) ==
    /\ DOMAIN r = {"status", "message"}
    /\ r.status \in {400, 500}
    /\ r.message \in STRING

\* C11: a request gets exactly one response: nothing is sent while the handler runs, what
\* is sent when it ends is either a 200 with a complete ProductResponse or a single
\* message with status 400 or 500, never a partial product body, and once sent it is
\* never sent again or changed; an exception that escapes the pipeline (the TypeError of
\* url.includes on a url that is not a string) is answered 500 with the exception's message.
C11_ExactlyOneResponse ==
    /\ [](/\ (pc = "done") <=> (res # NotSent)
          /\ res # NotSent => IsProductResponse(res) \/ IsErrorResponse(res)
          /\ (/\ pc = "done"
              /\ ~NoUrl
              /\ ~NoCredentials
              /\ ~IsString(req["url"])) =>
                 res = [status |-> 500, message |-> "url.includes is not a function"]
          /\ res # NotSent /\ res.status = 500 => ~NoUrl /\ ~IsString(req["url"]))
    /\ [][res # NotSent => res' = res]_vars

\* C11 witness: the exception of url.includes on a number was caught at the handler
\* boundary and answered 500 with its message, before any upstream call
C11_Witness ==
    /\ pc = "done"
    /\ res = [status |-> 500, message |-> "url.includes is not a function"]
    /\ net = NoCalls

\* the stage of the pipeline the handler is in: validation, redirect resolution followed by
\* the extraction of the product id, the detail call, the scrape, the offers, the response
StageOf(p) ==
    CASE p = "received" -> 1
      [] p = "resolve" -> 2
      [] p = "api" -> 3
      [] p = "scrape" -> 4
      [] p \in {"primary", "secondary"} -> 5
      [] p = "done" -> 6

\* the kinds of the upstream calls started, in their order
KindsStarted ==
    LET IsStart(e) == e[1] = "start"
        starts == SelectSeq(events, IsStart) IN
    [k \in 1..Len(starts) |-> starts[k][2]]

\* the position in events of the first event of this sort, 0 when there is none
PositionOf(sort, kind) ==
    LET hits == {k \in 1..Len(events) : events[k][1] = sort /\ events[k][2] = kind} IN
    IF hits = {} THEN 0 ELSE CHOOSE k \in hits : \A j \in hits : k <= j

\* how many of the calls started are of this kind
Count(kind) == Cardinality({k \in 1..Len(KindsStarted) : KindsStarted[k] = kind})

\* C16: a request passes through the stages validate, resolve and extract, detail call,
\* scrape, offers, response in that order: every step moves the handler to a later stage
\* or, within the offers stage, to the next link call, and no stage is entered again; the
\* upstream calls are made one after the other, in the order redirect, detail call,
\* scrape, link calls, and a 200 is sent only after all of them, with eight offers.
C16_StagesInOrder ==
    /\ [](/\ \A k \in 1..Len(events) :
                events[k][1] = (IF k % 2 = 1 THEN "start" ELSE "end")
          /\ \A k \in 2..Len(events) : k % 2 = 0 => events[k][2] = events[k - 1][2]
          /\ \A k \in 1..Len(KindsStarted) :
                KindsStarted[k] = (CASE k = 1 -> "redirect"
                                     [] k = 2 -> "api"
                                     [] k = 3 -> "scrape"
                                     [] OTHER -> "link")
          /\ Len(KindsStarted) = (CASE StageOf(pc) = 1 -> 0
                                    [] StageOf(pc) = 2 -> 1
                                    [] StageOf(pc) = 3 -> 2
                                    [] StageOf(pc) = 4 -> 3
                                    [] StageOf(pc) = 5 -> 3 + Len(linkLog)
                                    [] OTHER -> Len(KindsStarted))
          /\ (pc = "done" /\ res.status = 200) =>
                /\ Len(KindsStarted) >= 3 + 8
                /\ Len(events) = 2 * Len(KindsStarted)
                /\ Len(res.body.offers) = 8)
    /\ [][\/ StageOf(pc') = StageOf(pc) + 1
          \/ StageOf(pc') = 5 /\ StageOf(pc) = 5 /\ Len(linkLog') = Len(linkLog) + 1
          \/ pc' = "done" /\ StageOf(pc) \in {1, 2} /\ res'.status \in {400, 500}]_vars

\* C16 witness: a 200 has been sent after the redirect resolution, the detail call, the
\* scrape and the link calls, each ended before the next began
C16_Witness ==
    /\ pc = "done"
    /\ res.status = 200
    /\ Len(events) >= 2 * (3 + 8)
    /\ PositionOf("end", "redirect") + 1 = PositionOf("start", "api")
    /\ PositionOf("end", "api") + 1 = PositionOf("start", "scrape")
    /\ PositionOf("end", "scrape") + 1 = PositionOf("start", "link")

\* the detail call and the scrape are over
PastMetadata == pc \in {"primary", "secondary"} \/ (pc = "done" /\ res.status = 200)

\* C17: the detail call is sent once and never again, whether it succeeds or fails; the
\* scrape is sent once, after the detail call has ended, whether that succeeded or failed;
\* the two are never in flight together.
C17_DetailCallThenScrapeOnceEach ==
    /\ Count("api") <= 1
    /\ Count("scrape") <= 1
    /\ Count("api") = net.api
    /\ Count("scrape") = net.scrape
    /\ pc = "api" => Count("api") = 1 /\ PositionOf("end", "api") = 0 /\ Count("scrape") = 0
    /\ Count("scrape") = 1 =>
          /\ PositionOf("end", "api") > PositionOf("start", "api")
          /\ PositionOf("start", "scrape") > PositionOf("end", "api")
    /\ pc = "scrape" => Count("api") = 1 /\ Count("scrape") = 1
    /\ PastMetadata =>
          /\ Count("api") = 1
          /\ Count("scrape") = 1
          /\ PositionOf("end", "scrape") > PositionOf("start", "scrape")

\* C17 witness: the detail call failed, was not sent again, and the scrape was sent after it
C17_Witness ==
    /\ PastMetadata
    /\ ~apiOk
    /\ net.api = 1
    /\ net.scrape = 1
    /\ PositionOf("start", "scrape") = PositionOf("end", "api") + 1

\* what the URL patterns of extractProductId give for a text, <<>> when none matches
ByPattern(s) ==
    IF variant = "rich" THEN FirstCapture(TargetUrl(s), UrlPatternsRich)
                        ELSE FirstCapture(s, PatternsSimple)

\* what the search for a stand-alone run of 10 to 20 digits gives for a text
ByDigits(s) == IF variant = "rich" THEN NumericMatch(s) ELSE <<>>

\* C19 as stated: the run-of-digits fallback is used only when no URL pattern matches: a
\* productId that is not the capture of a pattern is a digit run of a text that no pattern
\* matches; and when a pattern matches the raw input the productId is the capture of a
\* pattern, never a digit run found in the resolved URL.
C19_AsStated ==
    (Extracted /\ productId # <<>>) =>
        /\ productId \notin {ByPattern(finalUrl), ByPattern(req["url"])} =>
              \/ ByPattern(finalUrl) = <<>> /\ productId = ByDigits(finalUrl)
              \/ ByPattern(req["url"]) = <<>> /\ productId = ByDigits(req["url"])
        /\ ByPattern(req["url"]) # <<>> =>
              productId \in {ByPattern(finalUrl), ByPattern(req["url"])}

\* C19: within one extractProductId call the run-of-digits fallback is used only when no
\* pattern matches, and it searches the whole text given to that call; the handler makes
\* the call on the resolved URL first and on the raw input only when that gives nothing,
\* so the productId is the pattern capture of the resolved URL, else (routes.ts only) the
\* digit run of the resolved URL, else the pattern capture of the raw input, else
\* (routes.ts only) the digit run of the raw input.
C19_FallbackWithinEachCall ==
    Extracted =>
        productId = IF ByPattern(finalUrl) # <<>> THEN ByPattern(finalUrl)
                    ELSE IF ByDigits(finalUrl) # <<>> THEN ByDigits(finalUrl)
                    ELSE IF ByPattern(req["url"]) # <<>> THEN ByPattern(req["url"])
                    ELSE ByDigits(req["url"])

\* C19 witness: the raw input is the page of product 11, the redirect chain ended on a
\* store page that matches no pattern, and the productId is the store number
C19_Witness ==
    /\ pc = "done"
    /\ variant = "rich"
    /\ res.status = 200
    /\ req["url"] = UrlProduct
    /\ finalUrl = LandingStore
    /\ ByPattern(req["url"]) = <<"1", "1">>
    /\ ByPattern(finalUrl) = <<>>
    /\ res.body.productId = "1234567890"

\* C25: every 200 response has a non-empty title: the title of the detail call when it
\* supplied one, else the scraped title, else a fixed placeholder, also when the title of
\* the scraped page is blank or is empty once decoded, truncated and trimmed.
C25_AsStated ==
    (pc = "done" /\ res.status = 200) =>
        /\ res.body.title # ""
        /\ (apiOk /\ apiData.title \notin TitlePlaceholders(variant)) =>
               res.body.title = apiData.title
        /\ ~(apiOk /\ apiData.title \notin TitlePlaceholders(variant)) =>
               res.body.title \in {scrapedData.title, "AliExpress Product",
                                   "Unable to extract title"}

\* in routes.ts an empty cleaned title gives way to the placeholder, so the title of a 200
\* response is never empty there
RichTitleNeverEmpty ==
    (variant = "rich" /\ pc = "done" /\ res.status = 200) => res.body.title # ""

\* in both files the title of the detail call is kept when it supplied one, and the scrape
\* fills only a missing or placeholder title
TitleSourceAsDescribed ==
    (pc = "done" /\ res.status = 200) =>
        res.body.title = IF apiOk /\ apiData.title \notin TitlePlaceholders(variant)
                             THEN apiData.title ELSE scrapedData.title

\* C25 witness: a 200 of part_006 whose page had only a blank title: the response has the
\* empty title
C25_Witness ==
    /\ variant = "simple"
    /\ pc = "done"
    /\ res.status = 200
    /\ scrapeOk
    /\ scrapedData.title = ""
    /\ res.body.title = ""

(***************************************************************************)
(* Termination of POST /api/product, checked under SpecLive.               *)
(***************************************************************************)
\* C13: provided every upstream call eventually returns or fails, every request received
\* is eventually answered and the handler ends; it makes at most one redirect resolution,
\* one detail call, one scrape and sixteen link calls (two for each of the eight offers),
\* and every handler step either answers the request or starts exactly one further call.
C13_EveryRequestIsAnswered ==
    /\ (pc = "received") ~> (pc = "done" /\ res # NotSent)
    /\ [](/\ net.redirect <= 1
          /\ net.api <= 1
          /\ net.scrape <= 1
          /\ net.link <= 2 * 8
          /\ Len(linkLog) = net.link)
    /\ [][\/ pc' = "done"
          \/ net'.redirect + net'.api + net'.scrape + net'.link
                 = net.redirect + net.api + net.scrape + net.link + 1]_vars

\* C13 witness: a request answered after the largest number of upstream calls: the
\* redirect resolution, the detail call, the scrape and two link calls for every offer
C13_Witness ==
    /\ pc = "done"
    /\ res.status = 200
    /\ net = [redirect |-> 1, api |-> 1, scrape |-> 1, link |-> 16]

(***************************************************************************)
(* Properties of two requests side by side, checked under SpecPair.        *)
(***************************************************************************)
\* what the awaited calls of a handler returned, in call order
RECURSIVE ReturnsOf(_)
ReturnsOf(ev) ==
    IF ev = <<>> THEN <<>>
    ELSE (IF Head(ev)[1] = "end" THEN <<Head(ev)[3]>> ELSE <<>>) \o ReturnsOf(Tail(ev))

\* the credentials every signed call of a handler was made with
CredentialsUsed(ev) == {ev[k][4] : k \in {j \in 1..Len(ev) : ev[j][1] = "start" /\ ev[j][4] # <<>>}}

\* the handler with these locals keeps its request apart from any other
Isolated(h) ==
    /\ h.pc = "done" => h.res = RunAlone(variant, h.req, ReturnsOf(h.events))
    /\ h.pc # "done" => h.res = NotSent
    /\ CredentialsUsed(h.events)
           \subseteq {<<h.req["appKey"], h.req["appSecret"], h.req["trackingId"]>>}

\* C12: with two requests in flight and their network waits interleaved in any way, the
\* response of each is the one the handler gives when run alone against the same upstream
\* answers, and every signed upstream call made for a request carries that request's own
\* appKey, appSecret and trackingId; a step of one handler leaves the locals of the other
\* as they were.
C12_RequestsDoNotInterfere ==
    /\ [](Isolated(Locals) /\ Isolated(flight.suspended))
    /\ [][flight'.running = flight.running => flight'.suspended = flight.suspended]_vars

\* C12 witness: both requests have been answered, each 200 with links made for its own
\* product, after both were awaiting upstream calls at the same time
C12_Witness ==
    /\ overlap
    /\ pc = "done"
    /\ flight.suspended.pc = "done"
    /\ res.status = 200
    /\ flight.suspended.res.status = 200
    /\ req["url"] = UrlShort
    /\ res.body.productId # flight.suspended.res.body.productId
    /\ Len(events) > 8
    /\ Len(flight.suspended.events) > 8

(***************************************************************************)
(* Properties of the search history, checked under SpecStore.              *)
(***************************************************************************)
\* the entries of list other than the one with the productId of product, in their order
Others(list, product) ==
    LET Differs(e) == e.productId # product.productId IN SelectSeq(list, Differs)

\* a saveProduct call has ended and its write went through
Saved == lastSaved.calls > 0 /\ lastSaved.write = "resolves"

\* after the last save the list is as the history contract says
HistoryKept ==
    /\ Len(stored) <= HistoryLimit
    /\ \A j, k \in 1..Len(stored) : j # k => stored[j].productId # stored[k].productId
    /\ Saved =>
          /\ stored # <<>>
          /\ stored[1] = lastSaved.product
          /\ LET others == Others(lastSaved.before, lastSaved.product) IN
             Tail(stored) = IF Len(others) >= HistoryLimit
                                THEN SubSeq(others, 1, Len(others) - 1)
                                ELSE others

\* C14: starting from an empty history, after any sequence of saveProduct calls that each
\* end before the next begins, the stored list has at most 20 entries and no two with the
\* same productId, the product saved last is first, and the other entries are those the
\* list had before, in their order, less the entry with the saved productId and, on
\* overflow, the last one.
C14_AsStated == HistoryKept

\* the same, for a save during which AsyncStorage.getItem resolved
HistoryKeptWhileReadsResolve ==
    (lastSaved.calls > 0 /\ lastSaved.read = "resolves") => HistoryKept

\* C14 witness: a save during which the read was rejected has ended, and the list it
\* leaves holds the saved product alone, the earlier entries gone
C14_Witness ==
    /\ Saved
    /\ lastSaved.read = "rejects"
    /\ Len(lastSaved.before) >= 2
    /\ FindIndex(lastSaved.before, lastSaved.product) = 0
    /\ stored = <<lastSaved.product>>

\* the productIds a list holds
IdsOf(list) == {list[k].productId : k \in 1..Len(list)}

\* a saveProduct call has ended during which a storage call was rejected
SavedThroughAFault ==
    lastSaved.calls > 0 /\ (lastSaved.read = "rejects" \/ lastSaved.write = "rejects")

\* C27: a storage failure during saveProduct never destroys history: when reading the
\* stored list fails, or when writing fails, the products stored before the call are
\* still stored after it (saveProduct itself always returns to its caller).
C27_AsStated ==
    SavedThroughAFault => IdsOf(lastSaved.before) \subseteq IdsOf(stored)

\* when the write is rejected the stored list is left as it was, whatever the read did
RejectedWriteKeepsHistory ==
    (lastSaved.calls > 0 /\ lastSaved.write = "rejects") => stored = lastSaved.before

\* C27 witness: a call whose read was rejected and whose write went through has ended, and
\* a product stored before it is no longer stored
C27_Witness ==
    /\ lastSaved.calls > 0
    /\ lastSaved.read = "rejects"
    /\ lastSaved.write = "resolves"
    /\ \E e \in IdsOf(lastSaved.before) : e \notin IdsOf(stored)

(***************************************************************************)
(* Properties of two saveProduct calls at once, checked under SpecSavers.  *)
(***************************************************************************)
\* both calls have ended
BothSaved == \A s \in Savers : savers[s].pc = "done"

\* the products of the two calls
SavedIds == {savers[s].product.productId : s \in Savers}

\* the entries stored before the calls that the overflow rule may not remove: those with
\* another productId than the two products, less the ones beyond the limit once the two
\* products are in the list
EntriesToKeep ==
    LET Other(e) == e.productId \notin SavedIds
        others == SelectSeq(lastSaved.before, Other) IN
    {others[k].productId : k \in 1..MinOf({Len(others), HistoryLimit - 2})}

\* both products are stored and no entry was lost but by overflow
BothKept ==
    /\ SavedIds \subseteq IdsOf(stored)
    /\ EntriesToKeep \subseteq IdsOf(stored)
    /\ Len(stored) <= HistoryLimit

\* C26: when two saveProduct calls for products with different productIds overlap, both
\* products are in the stored list once both calls have ended, and no product stored
\* before is lost other than by the 20-entry overflow rule.
C26_AsStated == (BothSaved /\ overlap) => BothKept

\* two calls of which one ended before the other began leave both products stored
OneAfterTheOtherKeepsBoth == (BothSaved /\ ~overlap) => BothKept

\* whatever the interleaving, the product of the call that wrote last is first in the list,
\* and the list holds no productId twice
LastWriterFirst ==
    BothSaved =>
        /\ \E s \in Savers : stored # <<>> /\ stored[1] = savers[s].product
        /\ \A j, k \in 1..Len(stored) : j # k => stored[j].productId # stored[k].productId

\* C26 witness: both calls have ended, they overlapped, and the product of one of them is
\* not in the stored list
C26_Witness ==
    /\ BothSaved
    /\ overlap
    /\ \E s \in Savers : savers[s].product.productId \notin IdsOf(stored)

(***************************************************************************)
(* Properties of registration and login, checked under SpecAuth.           *)
(***************************************************************************)
\* the requests of a kind that have been answered
AnsweredOf(kind) == {r \in AuthRequests : auth[r].kind = kind /\ auth[r].pc = "done"}

\* the email of the body of request r, lower-cased
EmailOf(r) ==
    ToLowerCase(IF auth[r].kind = "register" THEN auth[r].body.email
                                             ELSE auth[r].body.emailOrUsername)

\* no two rows of the table have the same email, and every email is stored lower-cased
EmailsUnique ==
    /\ \A u, w \in users : u.email = w.email => u = w
    /\ \A u \in users : u.email = ToLowerCase(u.email)

\* C28: after any registrations, interleaved ones included, no two stored users have the
\* same lower-cased email, and every (valid) registration whose lower-cased email already
\* belongs to a stored user when it is answered is answered 409 "Email already exists"
\* and creates no user.
C28_AsStated ==
    /\ EmailsUnique
    /\ \A r \in AnsweredOf("register") :
          (/\ ValidRegistration(auth[r].body)
           /\ SelectByEmail(auth[r].table, EmailOf(r)) # {}) =>
             /\ auth[r].res = Answer(409, "Email already exists")
             /\ auth[r].added = {}

\* a registration whose select by email found a row is answered 409, and only a
\* registration answered 201 has created a user
TakenAtLookupIsAConflict ==
    \A r \in AnsweredOf("register") :
        /\ auth[r].found = "taken" =>
              auth[r].res = Answer(409, "Email already exists") /\ auth[r].added = {}
        /\ auth[r].res.status # 201 => auth[r].added = {}
        /\ auth[r].res.status \in {400, 409, 201, 500}

\* C28 witness: two registrations with the same lower-cased email have been answered; the
\* select of each found no row; one is answered 201, and the other, whose insert the
\* table rejected, is answered 500 although the email was stored by then
C28_Witness ==
    \E r, o \in AnsweredOf("register") :
        /\ r # o
        /\ EmailOf(r) = EmailOf(o)
        /\ auth[r].res.status = 201
        /\ auth[o].found = "free"
        /\ auth[o].userId # ""
        /\ SelectByEmail(auth[o].table, EmailOf(o)) # {}
        /\ auth[o].res = Answer(500, "Internal server error")

\* the ids of the rows of a table
RowIds(table) == {u.id : u \in table}

\* generateUniqueUserId never goes beyond maxAttempts ids; when it has used them all the
\* registration is answered 500 and has created no user
AttemptsBounded ==
    \A r \in AuthRequests :
        /\ auth[r].attempts <= maxAttempts
        /\ auth[r].pc \in {"idSelect", "insert"} => auth[r].attempts < maxAttempts
        /\ auth[r].attempts = maxAttempts =>
              /\ auth[r].pc = "done"
              /\ auth[r].res = Answer(500, "Internal server error")
              /\ auth[r].added = {}
              /\ auth[r].userId = ""

\* no two rows of the table have the same id
IdsUnique == \A u, w \in users : u.id = w.id => u = w

\* a registration answered 201 has stored exactly one new row, with the id it returned
CreatedIsWhatWasStored ==
    \A r \in AnsweredOf("register") :
        auth[r].res.status = 201 =>
            /\ auth[r].res.user.id = auth[r].userId
            /\ auth[r].res.user.id \in UserIds
            /\ auth[r].added = {u \in users : u.id = auth[r].res.user.id}
            /\ Cardinality(auth[r].added) = 1
            /\ auth[r].res.user.id \notin RowIds(auth[r].table)
            /\ users = auth[r].table \cup auth[r].added
                 \cup UNION {auth[o].added : o \in AuthRequests \ {r}}

\* a step of generateUniqueUserId: an id no row has is returned at once, an id some row
\* has costs one attempt and is not returned; no other step of a request changes its
\* attempts or its id
IdStep(r) ==
    /\ (auth[r].pc = "idSelect" /\ auth'[r].pc = "insert") =>
          /\ auth'[r].userId \notin RowIds(users)
          /\ auth'[r].attempts = auth[r].attempts
    /\ (auth[r].pc = "idSelect" /\ auth'[r] # auth[r] /\ auth'[r].pc # "insert") =>
          /\ auth'[r].attempts = auth[r].attempts + 1
          /\ auth'[r].userId = ""
          /\ users # {}
    /\ auth[r].pc # "idSelect" =>
          /\ auth'[r].attempts = auth[r].attempts
          /\ auth'[r].userId = auth[r].userId

\* C29: generateUniqueUserId tries at most 100 ids and returns the first that no stored
\* user has; when all 100 are taken it fails and the registration is answered 500 and
\* creates no user; no two stored users share an id, and a registration answered 201 has
\* stored exactly one new user, whose id is the one returned.
C29_UniqueIdWithinAHundredAttempts ==
    /\ [](AttemptsBounded /\ IdsUnique /\ CreatedIsWhatWasStored)
    /\ [][\A r \in AuthRequests : IdStep(r)]_vars

\* C29 witness: a registration has used up its 100 attempts against a table that holds
\* every id and is answered 500, while another was answered 201 with a new id
C29_Witness ==
    \E r, o \in AnsweredOf("register") :
        /\ auth[r].attempts = maxAttempts
        /\ auth[r].res.status = 500
        /\ auth[o].res.status = 201
        /\ auth[o].res.user.id \in RowIds(users)

\* the fields of the user object of a response
PublicFields == {"id", "firstName", "lastName", "email"}

\* a response carries a status and a message, and with a user object only the public
\* fields of the row: neither the password hash nor the birth date
NoHashInResponse(response) ==
    /\ DOMAIN response \subseteq {"status", "message", "user"}
    /\ "user" \in DOMAIN response => DOMAIN response.user = PublicFields

\* the answer the login of request r is to get from the table as it was when answered
LoginAsDescribed(r) ==
    LET rows == {u \in auth[r].table : u.email = EmailOf(r)}
        response == auth[r].res IN
    IF Len(auth[r].body.emailOrUsername) = 0 \/ Len(auth[r].body.password) = 0
        THEN response.status = 400
        ELSE IF rows = {}
                 THEN response = [status |-> 404, message |-> "User not found"]
                 ELSE \E u \in rows :
                        IF u.password # [sha256 |-> auth[r].body.password]
                            THEN response = [status |-> 401, message |-> "Invalid password"]
                            ELSE /\ response.status = 200
                                 /\ response.message = "Login successful"
                                 /\ \A f \in PublicFields : response.user[f] = u[f]

ValuesOf(product) ==
    { <<PhTitle, product.title>>, <<PhPrice, product.price>>,
      <<PhOriginalPrice, product.originalPrice>>, <<PhDiscount, product.discount>>,
      <<PhStoreName, product.storeName>>,
      <<PhOffers, offersText(product.offers)>> }

\* the placeholder that starts at position p of the template, as a set of its pair
PlaceholderAt(template, product, p) ==
    {pv \in ValuesOf(product) : LitAt(template, p, pv[1])}

\* the template with every occurrence of every placeholder replaced by its value, the
\* value inserted as it is
Substituted(template, product) ==
    Join([p \in 1..Len(template) |->
            IF PlaceholderAt(template, product, p) # {}
                THEN (CHOOSE pv \in PlaceholderAt(template, product, p) : TRUE)[2]
            ELSE IF \E q \in 1..(p - 1) : \E pv \in PlaceholderAt(template, product, q) :
                        p < q + Len(pv[1])
                THEN <<>>
            ELSE <<template[p]>>])

\* the names and links of the successful offers, in response order
Successful(offers) ==
    SelectSeq(offers, LAMBDA o : o.success)

\* C24 as stated: formatProductMessage replaces every occurrence of each placeholder of the
\* template by the product's value, inserted as it is and not substituted again; {offers}
\* stands for the name and link of exactly the offers whose success is true, in order.
C24_AsStated ==
    formatted.called =>
        formatted.result = Substituted(formatted.template, formatted.product)

\* the count of occurrences of lit in s
Occurrences(s, lit) == Cardinality({p \in 1..Len(s) : LitAt(s, p, lit)})

\* no placeholder occurs twice in the template, and no value holds a brace or a dollar sign
PlainCall ==
    /\ \A pv \in ValuesOf(formatted.product) :
          /\ Occurrences(formatted.template, pv[1]) <= 1
          /\ \A k \in 1..Len(pv[2]) : pv[2][k] \notin {"{", "$"}

\* what holds of the code: the statement above for plain calls
SubstitutedWhenPlain ==
    (formatted.called /\ PlainCall) =>
        formatted.result = Substituted(formatted.template, formatted.product)

\* the text {offers} stands for lists the successful offers only, each as name, colon,
\* line break, link, with an empty line between two of them
OffersTextListsSuccesses ==
    LET good == Successful(formatted.product.offers) IN
    offersText(formatted.product.offers) =
        Join([k \in 1..Len(good) |->
                good[k].name \o <<":", "\n">> \o good[k].link
                \o (IF k < Len(good) THEN <<"\n", "\n">> ELSE <<>>)])

\* C24 witness: a call whose template holds the same placeholder twice
C24_Witness ==
    /\ formatted.called
    /\ Occurrences(formatted.template, PhTitle) = 2
    /\ formatted.product.title = <<"T","V">>
    /\ Occurrences(formatted.result, PhTitle) = 1

(***************************************************************************)
(* Properties of the two variants side by side, checked under SpecTwin.    *)
(***************************************************************************)
BothHandled == twin.handled = 2

\* the run of routes.ts and the run of part_006
RichRun == IF variant = "rich" THEN twin.first ELSE twin.second

SimpleRun == IF variant = "simple" THEN twin.first ELSE twin.second

\* name, link and success of the offers of a 200 response
OffersOf(run) == run.res.body.offers

SameStatus == RichRun.res.status = SimpleRun.res.status

StoppedEarly(run) ==
    /\ run.res.status # 200
    /\ run.res.message # "Could not extract product ID from URL"

BothFound == RichRun.res.status = 200 /\ SimpleRun.res.status = 200

\* the productId of a run as a text: the one text a variant extracts from the request or
\* from a landing page that is spelled like it
PidOf(run) ==
    CHOOSE pid \in {extractProductId(v, s) :
                       v \in Variants,
                       s \in {twin.req["url"], LandingProduct, LandingLogin, LandingStore}} :
        pid # <<>> /\ Str(pid) = run.res.body.productId

\* the sources are the wrapper of the same row, as each variant spells it
WrappersOfOneRow(richSource, simpleSource, pid) ==
    \E k \in 1..8 :
        /\ richSource = Str(offersSecondaryRich(pid)[k].url)
        /\ simpleSource = Str(offersSecondarySimple(pid)[k].url)

WireParams(r) == r.query \o r.body

IsSigned(r) == \E k \in 1..Len(WireParams(r)) : WireParams(r)[k][1] = SignKey

Carries(r, name, value) == \E k \in 1..Len(WireParams(r)) : WireParams(r)[k] = <<name, value>>

\* a request for a link to source: signed, promotion_link_type=0, source_values=source
AsksLinkFor(r, source) ==
    /\ IsSigned(r)
    /\ Carries(r, <<"p","r","o","m","o","t","i","o","n","_","l","i","n","k","_","t","y","p","e">>, <<"0">>)
    /\ Carries(r, <<"s","o","u","r","c","e","_","v","a","l","u","e","s">>, FormEncode(source))

\* what an answer to such a request holds for the caller: its first promotion link when
\* there is one, nothing otherwise
FirstPromotionLink(answer, source) ==
    CASE answer = "link" -> PromotionLinkFor(Str(source))
      [] answer = "empty" -> ""
      [] OTHER -> Null

LinkCallOver == call.fn = "link" /\ call.step = "returned"

\* C18 as stated: an attempt to generate an affiliate link for one source URL sends exactly
\* one request upstream, the signed one with promotion_link_type=0 and source_values set to
\* that URL, and what the attempt returns is determined by the answer to that request
\* alone: its first promotion link when there is one, nothing otherwise.
C18_AsStated ==
    LinkCallOver =>
        /\ Len(call.sent) = 1
        /\ AsksLinkFor(call.sent[1], call.arg)
        /\ Len(call.answers) = 1
        /\ call.result = FirstPromotionLink(call.answers[1], call.arg)

\* what the code does instead: the bare request goes first; when it fails nothing else is
\* sent and the attempt returns nothing; when it is answered the signed request follows and
\* its answer determines the result
BareRequestFirst ==
    LinkCallOver =>
        /\ call.sent[1] = BareRequest
        /\ call.answers[1] = "throw" => Len(call.sent) = 1 /\ call.result = Null
        /\ call.answers[1] = "ok" =>
              /\ Len(call.sent) = 2
              /\ AsksLinkFor(call.sent[2], call.arg)
              /\ call.result = FirstPromotionLink(call.answers[2], call.arg)

C18_Witness ==
    /\ LinkCallOver
    /\ Len(call.sent) = 2
    /\ call.answers = <<"ok", "link">>

\* a detail call that returned from an answer holding a product
DetailCallGaveProduct ==
    /\ call.fn = "detail"
    /\ call.step = "returned"
    /\ call.answers[1].kind = "product"

\* the prices and the discount field the code reads from the product, <<>> and "" when absent
SalePriceOf(product) ==
    OrElseSeq(Field(product, "target_sale_price", <<>>), Field(product, "app_sale_price", <<>>))

OriginalPriceOf(product) ==
    OrElseSeq(Field(product, "target_original_price", <<>>), Field(product, "original_price", <<>>))

\* a price is known, and parses to a number greater than 0
Known(price) == price \notin {<<>>, LitNA}

Positive(price) ==
    LET x == ParseFloat(KeepNumeric(price)) IN ~x.nan /\ x.num > 0

\* the largest magnitude, in units of the last digit kept, a percentage of the prices above has
MaxUnits == 2000

\* (original - sale) / original * 100 to `digits` decimals followed by "%": the number of
\* that many decimals nearest to the exact quotient, ties away from zero, with its sign
PercentOff(originalPrice, salePrice, digits) ==
    LET o == ParseFloat(KeepNumeric(originalPrice))
        s == ParseFloat(KeepNumeric(salePrice))
        a == 100 * (o.num * s.den - s.num * o.den)
        b == o.num * s.den
        mag == IF a < 0 THEN 0 - a ELSE a
        n == CHOOSE m \in 0..MaxUnits :
                 /\ 2 * b * m - 2 * mag * Pow10(digits) > 0 - b
                 /\ 2 * b * m - 2 * mag * Pow10(digits) <= b
        number == IF digits = 0 THEN NatToText(n)
                  ELSE NatToText(n \div 10) \o <<".">> \o NatToText(n % 10) IN
    Str((IF a < 0 THEN <<"-">> ELSE <<>>) \o number \o <<"%">>)

\* the discount of the claim, with the percentage to `digits` decimals
DiscountAsDescribed(product, digits) ==
    IF Field(product, "target_discount", "") # ""
        THEN Field(product, "target_discount", "")
    ELSE IF /\ Known(OriginalPriceOf(product)) /\ Known(SalePriceOf(product))
            /\ Positive(OriginalPriceOf(product)) /\ Positive(SalePriceOf(product))
        THEN PercentOff(OriginalPriceOf(product), SalePriceOf(product), digits)
    ELSE "0%"

\* C21 as stated: the discount returned by getProductDetailsFromApi is the discount field of
\* the API when present; else, when both prices are known and parse to numbers greater than
\* 0, (original - sale) / original * 100 with one decimal followed by "%" (40.00 and 20.00
\* give "50.0%"); else "0%"; it is never empty.
C21_AsStated ==
    DetailCallGaveProduct =>
        /\ call.result.ok
        /\ call.result.data.discount = DiscountAsDescribed(call.answers[1].product, 1)
        /\ call.result.data.discount # ""

\* C21: the same, with the percentage rounded to one decimal in routes.ts and to a whole
\* number in part_006 (40.00 and 20.00 give "50.0%" and "50%").
C21_DiscountByVariant ==
    DetailCallGaveProduct =>
        /\ call.result.ok
        /\ call.result.data.discount =
              DiscountAsDescribed(call.answers[1].product, IF variant = "rich" THEN 1 ELSE 0)
        /\ call.result.data.discount # ""

C21_Witness ==
    /\ DetailCallGaveProduct
    /\ "target_discount" \notin DOMAIN call.answers[1].product
    /\ OriginalPriceOf(call.answers[1].product) = <<"6","0">>
    /\ SalePriceOf(call.answers[1].product) = <<"2","0",".","0","0">>
    /\ call.result.data.discount = "66.7%"

\* the requests of the call that carry a signature
SignedRequests == {k \in 1..Len(call.sent) : IsSigned(call.sent[k])}

Unsigned(ps) == SelectSeq(ps, LAMBDA p : p[1] # SignKey)

\* ks runs through names, each once, in ascending order
AscendingOrderOf(ks, names) ==
    /\ Len(ks) = Len(names)
    /\ {ks[k] : k \in 1..Len(ks)} = {names[k] : k \in 1..Len(names)}
    /\ \A k \in 1..(Len(ks) - 1) : StrLess(ks[k], ks[k + 1])

\* C20: in every signed request sent upstream the signature is the last parameter and is
\* the uppercase hexadecimal HMAC-SHA256, under the secret of the call, of the string made
\* of every other parameter of the request, taken by name in ascending order, each name
\* immediately followed by its value, with nothing between name and value or between pairs.
C20_SignatureCoversWhatIsSent ==
    \A k \in SignedRequests :
        LET wire == WireParams(call.sent[k])
            ps == Unsigned(wire)
            ks == SortKeys(ObjectKeys(ps))
            sign == wire[Len(wire)] IN
        /\ sign[1] = SignKey
        /\ Len(ps) = Len(wire) - 1
        /\ AscendingOrderOf(ks, ObjectKeys(ps))
        /\ sign[2].alg = "HMAC-SHA256"
        /\ sign[2].encoding = "HEX-UPPER"
        /\ sign[2].key = call.creds[2]
        /\ FormEncode(sign[2].message) = JoinPairs(ks, ps)

C20_Witness ==
    /\ call.step = "returned"
    /\ call.fn = "detail"
    /\ variant = "rich"
    /\ SignedRequests = {1}
    /\ Len(call.sent[1].body) = 12

(***************************************************************************)
(* Properties of generateAllOffers, checked under SpecOffers.              *)
(***************************************************************************)
\* the offer names in the order of the offer table
OfferNames ==
    <<"Coin Page Offer", "Direct Product Link", "Super Deals", "Big Save Discount",
      "Limited Discount", "Potential Discount", "Bundle Direct", "Bundle Deals Page">>

\* the indices of the offers pushed so far
Pushed == 1..Len(results)

\* C1: whatever the link endpoint answers, call by call, generateAllOffers ends with
\* exactly 8 offers whose names are the 8 table names in table order; while it runs the
\* offers pushed are the first names of the table, nothing is sent, and it is never stuck:
\* an offer whose attempts all failed is in the list like any other.
C1_EightOffersInTableOrder ==
    /\ [k \in Pushed |-> results[k].name] = SubSeq(OfferNames, 1, Len(results))
    /\ pc = "done" =>
          /\ res.status = 200
          /\ Len(res.body.offers) = 8
          /\ [k \in 1..8 |-> res.body.offers[k].name] = OfferNames
    /\ pc # "done" =>
          /\ res = NotSent
          /\ pc \in {"primary", "secondary"}
          /\ Len(results) = i - 1
          /\ ENABLED NextOffers

\* C1 witness: a finished run in which some offers failed and some succeeded
C1_Witness ==
    /\ pc = "done"
    /\ Len(res.body.offers) = 8
    /\ \E k \in 1..8 : ~res.body.offers[k].success
    /\ \E k \in 1..8 : res.body.offers[k].success

\* the positions of attemptReturns that hold an affiliate link
LinksReturned == {j \in 1..Len(attemptReturns) : attemptReturns[j] \notin {Null, ""}}

\* C2: for the offer pushed last, success is true exactly when its primary or its secondary
\* attempt returned an affiliate link; the link is then the first link returned (the
\* primary's when the primary gave one), and otherwise the primary target URL, not the
\* wrapper URL; the link of no offer is empty or null, and every failed offer carries its
\* primary target URL.
C2_SuccessIffALinkWasReturned ==
    /\ (pc \in {"primary", "done"} /\ results # <<>>) =>
          LET k == Len(results)
              item == results[k] IN
          /\ item.success <=> LinksReturned # {}
          /\ item.success => item.link = attemptReturns[MinOf(LinksReturned)]
          /\ ~item.success => item.link = offersPrimaryV[k].url
    /\ \A k \in Pushed :
          /\ results[k].link \notin {Null, ""}
          /\ results[k].link # offersSecondaryV[k].url
          /\ ~results[k].success => results[k].link = offersPrimaryV[k].url

\* C2 witness: the link endpoint failed on all 16 attempts, and all 8 offers are returned
\* with success false and the primary target URL
C2_Witness ==
    /\ pc = "done"
    /\ net.link = 16
    /\ \A k \in 1..8 : ~res.body.offers[k].success
                       /\ res.body.offers[k].link = offersPrimaryV[k].url

\* the generateAffiliateLink calls the finished offer k accounts for: the primary source
\* alone when its link is the one answered for the primary source, both sources otherwise
CallsOfOffer(k) ==
    IF results[k].link = PromotionLinkFor(offersPrimaryV[k].url)
        THEN <<offersPrimaryV[k].url>>
        ELSE <<offersPrimaryV[k].url, offersSecondaryV[k].url>>

\* the calls of the offer in progress
CallsInFlight ==
    CASE pc = "primary" -> <<offersPrimaryV[i].url>>
      [] pc = "secondary" -> <<offersPrimaryV[i].url, offersSecondaryV[i].url>>
      [] OTHER -> <<>>

RECURSIVE Concat(_)
Concat(seqs) == IF seqs = <<>> THEN <<>> ELSE Head(seqs) \o Concat(Tail(seqs))

\* C6: the calls made are, offer by offer in table order, the primary source and then,
\* only when the primary attempt returned no link, the wrapper source once; the wrapper
\* call starts after the primary has returned; so an offer takes at most 2 attempts and a
\* whole run between 8 and 16.
C6_WrapperOnlyAfterPrimaryFailed ==
    /\ linkLog = Concat([k \in Pushed |-> CallsOfOffer(k)]) \o CallsInFlight
    /\ net.link = Len(linkLog)
    /\ pc = "secondary" => Len(attemptReturns) = 1 /\ Falsy(attemptReturns[1])
    /\ (pc \in {"primary", "done"} /\ results # <<>>) =>
          /\ Len(attemptReturns) \in {1, 2}
          /\ Len(attemptReturns) = 2 <=> Falsy(attemptReturns[1])
    /\ pc = "done" => net.link >= 8 /\ net.link <= 16

\* C6 witness: a finished run in which exactly 4 of the 8 primary attempts gave no link
C6_Witness ==
    /\ pc = "done"
    /\ net.link = 12
    /\ Len(attemptReturns) = 2

\* the characters encodeURIComponent escapes, and a text with its %XX escapes read back
Escaped == {" ", "#", "$", "%", "&", "+", ",", "/", ":", ";", "=", "?", "@"}

Unescaped(s) ==
    Join([k \in 1..Len(s) |->
            IF s[k] = "%"
                THEN <<CHOOSE c \in Escaped : EncodeChar(c) = SubSeq(s, k, k + 2)>>
            ELSE IF (k > 1 /\ s[k - 1] = "%") \/ (k > 2 /\ s[k - 2] = "%") THEN <<>>
            ELSE <<s[k]>>])

\* the two offer tables of the variant for the productId of the request, as texts
PrimaryTable == IF variant = "rich" THEN offersPrimaryRich(productId) ELSE offersPrimarySimple(productId)

SecondaryTable ==
    IF variant = "rich" THEN offersSecondaryRich(productId) ELSE offersSecondarySimple(productId)

\* url is the share-redirect wrapper around target, the target written as it is or escaped
WrapperOf(url, target) ==
    /\ Len(url) > Len(LitShare)
    /\ SubSeq(url, 1, Len(LitShare)) = LitShare
    /\ Unescaped(SubSeq(url, Len(LitShare) + 1, Len(url))) = target

EventsOf(kind) ==
    LET IsOfKind(e) == e[2] = kind IN SelectSeq(events, IsOfKind)

\* the url arguments of the link calls started, in their order
LinkStarts ==
    LET IsStart(e) == e[1] = "start"
        starts == SelectSeq(EventsOf("link"), IsStart) IN
    [k \in 1..Len(starts) |-> starts[k][3]]

\* the row of the offers table a link call is made for, and whether it is the primary call
RowOf(url) ==
    IF \E k \in 1..Len(offersPrimaryV) : offersPrimaryV[k].url = url
        THEN CHOOSE k \in 1..Len(offersPrimaryV) : offersPrimaryV[k].url = url
        ELSE CHOOSE k \in 1..Len(offersSecondaryV) : offersSecondaryV[k].url = url

IsPrimary(url) == \E k \in 1..Len(offersPrimaryV) : offersPrimaryV[k].url = url

\* C15: the offers are resolved one at a time in table order: the link calls of a request
\* start and end in strict alternation, so that no two are ever in flight together; the
\* first call is the primary one of the first offer, and each later call is either the
\* secondary one of the offer whose primary call ended just before it, or the primary one
\* of the next offer, started only when every call of the offer before it has ended.
C15_OneLinkCallAtATime ==
    LET calls == EventsOf("link")
        starts == LinkStarts IN
    /\ \A k \in 1..Len(calls) : calls[k][1] = (IF k % 2 = 1 THEN "start" ELSE "end")
    /\ (pc \in {"primary", "secondary"}) <=> (Len(calls) % 2 = 1)
    /\ starts = linkLog
    /\ starts # <<>> => IsPrimary(starts[1]) /\ RowOf(starts[1]) = 1
    /\ \A k \in 2..Len(starts) :
          \/ /\ ~IsPrimary(starts[k])
             /\ IsPrimary(starts[k - 1])
             /\ RowOf(starts[k]) = RowOf(starts[k - 1])
          \/ /\ IsPrimary(starts[k])
             /\ RowOf(starts[k]) = RowOf(starts[k - 1]) + 1

\* C15 witness: generateAllOffers has returned after calls for all eight offers, some of
\* them with a secondary call and some without
C15_Witness ==
    /\ pc = "done"
    /\ Len(EventsOf("link")) = 2 * Len(linkLog)
    /\ Len(linkLog) = 12
    /\ ~IsPrimary(linkLog[2])
    /\ IsPrimary(linkLog[4])
    /\ RowOf(linkLog[12]) = 8

(***************************************************************************)
(* Properties of extractProductId, checked under SpecExtract.              *)
(***************************************************************************)
\* the pattern lists in their documented order: the query parameter first, then
\* /item/<id>.html, /item/<id>, /product/<id>, /i/<id>, then the embedded-in-path variants
PatternOrder ==
    IF variant = "rich"
        THEN <<"queryBoth", "itemHtml", "itemEnd", "product", "i", "pIndexBoth", "ssrBoth",
               "htmlQuery">>
        ELSE <<"queryPlural", "querySingular", "itemHtml", "itemEnd", "product", "i",
               "pIndexPlural", "ssrPlural", "htmlQuery">>

\* the extraction returned the capture of the first pattern of the list that matches t
FirstMatchWins(t) ==
    \A k \in 1..Len(PatternOrder) :
        (/\ Matches(t, PatternOrder[k])
         /\ \A j \in 1..(k - 1) : ~Matches(t, PatternOrder[j]))
            => extracted = MatchCapture(t, PatternOrder[k])

\* the digit runs of the ?productIds= and &productIds= parameters of t
PluralIds(t) ==
    {DigitsFrom(t, QueryParamAt(t, p, TRUE, FALSE)) :
        p \in {q \in 1..Len(t) : QueryParamAt(t, q, TRUE, FALSE) # 0}}

\* C9 as stated: the patterns are matched against the text, the first in list order that
\* matches gives the result, and a text that contains ?productIds=<digits> or
\* &productIds=<digits> yields those digits.
C9_AsStated ==
    phase = "called" =>
        /\ FirstMatchWins(text)
        /\ PluralIds(text) # {} => extracted \in PluralIds(text)

\* the text the patterns are matched against: in part_006 the text, in routes.ts the first
\* URL-shaped part of it that names a recognised domain, the text when there is none
Target == IF variant = "rich" THEN TargetUrl(text) ELSE text

\* no ?productId=<digits> or &productId=<digits> stands in t before its first productIds
NoEarlierSingular(t) ==
    LET first == MinOf({q \in 1..Len(t) : QueryParamAt(t, q, TRUE, FALSE) # 0}) IN
    \A q \in 1..(first - 1) : QueryParamAt(t, q, FALSE, TRUE) = 0

\* C9 (amended): the patterns are matched against the target, the first in list order
\* that matches the target gives the result, and a target that contains
\* ?productIds=<digits> or &productIds=<digits> yields the digits of the leftmost such
\* parameter, whatever /item/<id>.html its path has, unless in routes.ts a productId=
\* parameter precedes it, which then gives the result.
C9_FirstPatternOnTheTargetWins ==
    phase = "called" =>
        /\ FirstMatchWins(Target)
        /\ Matches(Target, "queryPlural") =>
              IF variant = "simple" \/ NoEarlierSingular(Target)
                  THEN extracted = MatchCapture(Target, "queryPlural")
                  ELSE extracted = MatchCapture(Target, "querySingular")

\* C9 witness: a message whose second URL is the product URL, with /item/11.html in its
\* path and productIds=33 in its query: the result is 33
C9_Witness ==
    /\ phase = "called"
    /\ variant = "rich"
    /\ Target # text
    /\ MatchCapture(Target, "itemHtml") = <<"1", "1">>
    /\ MatchCapture(Target, "queryPlural") = <<"3", "3">>
    /\ extracted = <<"3", "3">>

(***************************************************************************)
(* Properties of generateApiSignature, checked under SpecSig.              *)
(***************************************************************************)
\* the maps with the entries of ps in any insertion order
Reorderings(ps) ==
    {q \in [1..Len(ps) -> {ps[k] : k \in 1..Len(ps)}] :
        {q[k] : k \in 1..Len(ps)} = {ps[k] : k \in 1..Len(ps)}}

\* C10: the signature returned for a map and a secret is the one generateApiSignature
\* gives for every insertion order of the same entries; a second call returns the same
\* value; and no call changes the map or the secret it was given.
C10_SignatureIgnoresInsertionOrder ==
    /\ [](phase \in {"called", "repeated"} =>
            \A q \in Reorderings(params) : generateApiSignature(q, secret) = sig)
    /\ [][/\ params' = params
          /\ secret' = secret
          /\ phase = "called" => sig' = sig]_vars

\* C10 witness: a map whose two keys were inserted in descending order has been signed
\* twice, and the message signed has the keys in ascending order
C10_Witness ==
    /\ phase = "repeated"
    /\ Len(params) = 2
    /\ StrLess(params[2][1], params[1][1])
    /\ sig.message = params[2][1] \o params[2][2] \o params[1][1] \o params[1][2]

====
